---------------------------- MODULE Spec2Model ----------------------------
(***************************************************************************)
(* Replay server of llm_request_manager (src/server.py) over the           *)
(* conversation store (src/database.py).                                   *)
(*                                                                         *)
(* Strings are sequences of Unicode code points.  Python floats are        *)
(* modelled as exact rationals <<numerator, denominator>>.  The tokenizer  *)
(* (tiktoken, a byte-level BPE) is modelled by what it does to bytes: a    *)
(* token is a non-empty run of the UTF-8 bytes of the text.                *)
(***************************************************************************)
EXTENDS Integers, Sequences, FiniteSets, TLC

(***************************************************************************)
(* Bounds of the model.                                                    *)
(***************************************************************************)
\* Longest response text, in UTF-8 bytes.
MaxTextBytes == 4
\* Number of clock ticks that may pass, besides sleeps, during one replay.
MaxClockTicks == 2

(***************************************************************************)
(* Exact rational arithmetic (Python float arithmetic without rounding).   *)
(***************************************************************************)
RECURSIVE Gcd(_, _)
Gcd(a, b) ==
    IF b = 0 THEN a ELSE Gcd(b, a % b)

Abs(n) ==
    IF n < 0 THEN -n ELSE n

\* The rational n/d in lowest terms with a positive denominator (d # 0).
R(n, d) ==
    LET g == Gcd(Abs(n), Abs(d))
        s == IF d < 0 THEN -1 ELSE 1
    IN  << (s * n) \div g, (s * d) \div g >>

\* The operands are bound to their values first, so that each is computed
\* once.
RAdd(x, y) ==
    LET sum(a, b) ==
            LET g == Gcd(a[2], b[2])
            IN  R(a[1] * (b[2] \div g) + b[1] * (a[2] \div g),
                  (a[2] \div g) * b[2])
    IN  CHOOSE r \in { sum(a, b) : a \in { x }, b \in { y } } : TRUE

RNeg(x) ==
    << -x[1], x[2] >>

RSub(x, y) ==
    RAdd(x, RNeg(y))

RMul(x, y) ==
    LET product(u, v) ==
            LET a == R(u[1], v[2])
                b == R(v[1], u[2])
            IN  R(a[1] * b[1], a[2] * b[2])
    IN  CHOOSE r \in { product(u, v) : u \in { x }, v \in { y } } : TRUE

\* x / y for y # 0.
RDiv(x, y) ==
    CHOOSE r \in { RMul(x, R(v[2], v[1])) : v \in { y } } : TRUE

RLt(x, y) ==
    RSub(x, y)[1] < 0

RLe(x, y) ==
    RSub(x, y)[1] <= 0

RMax(x, y) ==
    CHOOSE r \in { IF RLt(a, b) THEN b ELSE a : a \in { x }, b \in { y } } :
        TRUE

RInt(n) ==
    << n, 1 >>

RZero ==
    << 0, 1 >>

(***************************************************************************)
(* Strings.                                                                *)
(***************************************************************************)
\* Python's `needle in hay` on strings.
IsSubstring(needle, hay) ==
    \E k \in 0..(Len(hay) - Len(needle)) :
        SubSeq(hay, k + 1, k + Len(needle)) = needle

RECURSIVE Concat(_)
Concat(ss) ==
    IF ss = << >> THEN << >> ELSE Head(ss) \o Concat(Tail(ss))

S_slow == <<115, 108, 111, 119>>
S_o1 == <<111, 49>>
S_deepseek_chat == <<100, 101, 101, 112, 115, 101, 101, 107, 45, 99, 104, 97, 116>>
S_gpt_4o == <<103, 112, 116, 45, 52, 111>>
S_o3_mini == <<111, 51, 45, 109, 105, 110, 105>>
S_deepseek_ai_DeepSeek_R1 == <<100, 101, 101, 112, 115, 101, 101, 107, 45, 97, 105, 47, 68, 101, 101, 112, 83, 101, 101, 107, 45, 82, 49>>
S_TA_deepseek_ai_DeepSeek_R1 == <<84, 65, 47>> \o S_deepseek_ai_DeepSeek_R1
S_claude_3_5_sonnet == <<99, 108, 97, 117, 100, 101, 45, 51, 45, 53, 45, 115, 111, 110, 110, 101, 116>>
S_claude_3_7_sonnet_20250219 == <<99, 108, 97, 117, 100, 101, 45, 51, 45, 55, 45, 115, 111, 110, 110, 101, 116, 45, 50, 48, 50, 53, 48, 50, 49, 57>>
S_gemini_2_0_flash_thinking_exp_01_21 == <<103, 101, 109, 105, 110, 105, 45, 50, 46, 48, 45, 102, 108, 97, 115, 104, 45, 116, 104, 105, 110, 107, 105, 110, 103, 45, 101, 120, 112, 45, 48, 49, 45, 50, 49>>
S_gemini_2_0_flash_001 == <<103, 101, 109, 105, 110, 105, 45, 50, 46, 48, 45, 102, 108, 97, 115, 104, 45, 48, 48, 49>>
S_gpt_4_5_preview == <<103, 112, 116, 45, 52, 46, 53, 45, 112, 114, 101, 118, 105, 101, 119>>
S_claude_3_opus == <<99, 108, 97, 117, 100, 101, 45, 51, 45, 111, 112, 117, 115>>
S_ark_deepseek_r1_250120 == <<97, 114, 107, 45, 100, 101, 101, 112, 115, 101, 101, 107, 45, 114, 49, 45, 50, 53, 48, 49, 50, 48>>

(***************************************************************************)
(* Configuration: model output speeds in tokens per second.                *)
(***************************************************************************)
\* A dict is a set of <<key, value>> pairs with distinct keys.
MODEL_OUTPUT_SPEEDS ==
    { <<S_slow, R(15, 1)>>,
      <<S_o1, R(40, 1)>>,
      <<S_deepseek_chat, R(38, 1)>>,
      <<S_gpt_4o, R(86, 1)>>,
      <<S_o3_mini, R(105, 1)>>,
      <<S_deepseek_ai_DeepSeek_R1, R(38, 1)>>,
      <<S_TA_deepseek_ai_DeepSeek_R1, R(76, 1)>>,
      <<S_claude_3_5_sonnet, R(55, 1)>>,
      <<S_claude_3_7_sonnet_20250219, R(55, 1)>>,
      <<S_gemini_2_0_flash_thinking_exp_01_21, R(200, 1)>>,
      <<S_gemini_2_0_flash_001, R(170, 1)>>,
      <<S_gpt_4_5_preview, R(14, 1)>>,
      <<S_claude_3_opus, R(30, 1)>>,
      <<S_ark_deepseek_r1_250120, R(57, 2)>> }

DEFAULT_OUTPUT_SPEED == 40

\* dict.get(key, default)
DictGet(dict, key, default) ==
    IF \E e \in dict : e[1] = key
    THEN (CHOOSE e \in dict : e[1] = key)[2]
    ELSE default

\* dict[key], for a key of the dict
DictAt(dict, key) ==
    (CHOOSE e \in dict : e[1] = key)[2]

\* dict with dict[key] = value
DictSet(dict, key, value) ==
    { e \in dict : e[1] # key } \cup { <<key, value>> }

(***************************************************************************)
(* UTF-8, as str.encode / bytes.decode compute it.                         *)
(***************************************************************************)
Utf8Char(c) ==
    IF c < 128 THEN << c >>
    ELSE IF c < 2048 THEN << 192 + (c \div 64), 128 + (c % 64) >>
    ELSE IF c < 65536 THEN
        << 224 + (c \div 4096), 128 + ((c \div 64) % 64), 128 + (c % 64) >>
    ELSE << 240 + (c \div 262144), 128 + ((c \div 4096) % 64),
            128 + ((c \div 64) % 64), 128 + (c % 64) >>

RECURSIVE Utf8Encode(_)
Utf8Encode(text) ==
    IF text = << >> THEN << >>
    ELSE IF Len(text) = 1 THEN Utf8Char(text[1])
    ELSE LET half == Len(text) \div 2
         IN  Utf8Encode(SubSeq(text, 1, half))
                 \o Utf8Encode(SubSeq(text, half + 1, Len(text)))

\* Number of bytes a character starting with lead byte b takes; 0 when b
\* cannot start a character.
LeadWidth(b) ==
    IF b < 128 THEN 1
    ELSE IF b >= 194 /\ b < 224 THEN 2
    ELSE IF b >= 224 /\ b < 240 THEN 3
    ELSE IF b >= 240 /\ b < 245 THEN 4
    ELSE 0

IsContinuation(b) ==
    b >= 128 /\ b < 192

\* Number of continuation bytes among bs[from..upto], counted from `from`
\* until the first byte that is not one.
RECURSIVE ContRun(_, _, _)
ContRun(bs, from, upto) ==
    IF from > upto \/ from > Len(bs) THEN 0
    ELSE IF IsContinuation(bs[from]) THEN 1 + ContRun(bs, from + 1, upto)
    ELSE 0

\* The code point of the complete character bs[1..w].
CodePoint(bs, w) ==
    IF w = 1 THEN bs[1]
    ELSE IF w = 2 THEN (bs[1] - 192) * 64 + (bs[2] - 128)
    ELSE IF w = 3 THEN
        (bs[1] - 224) * 4096 + (bs[2] - 128) * 64 + (bs[3] - 128)
    ELSE (bs[1] - 240) * 262144 + (bs[2] - 128) * 4096
            + (bs[3] - 128) * 64 + (bs[4] - 128)

\* The character U+FFFD that errors="replace" puts for undecodable bytes.
REPLACEMENT_CHAR == 65533

\* bytes.decode("utf-8", errors): [ok |-> FALSE] is UnicodeDecodeError
\* (strict only); otherwise text is the decoded string.  A long byte
\* string is decoded in two parts cut at a byte that begins a character
\* (no sequence, whole or broken, runs across such a byte).
RECURSIVE Utf8Decode(_, _)
Utf8Decode(bs, strict) ==
    LET starts == { k \in 2..Len(bs) : bs[k] < 128 \/ bs[k] >= 192 }
        half == (Len(bs) \div 2) + 1
        away(k) == IF k >= half THEN k - half ELSE half - k
    IN  IF bs = << >> THEN [ok |-> TRUE, text |-> << >>]
        ELSE IF Len(bs) > 4 /\ starts # { }
        THEN
            LET cut == CHOOSE k \in starts :
                           \A j \in starts : away(k) <= away(j)
                left == Utf8Decode(SubSeq(bs, 1, cut - 1), strict)
                right == Utf8Decode(SubSeq(bs, cut, Len(bs)), strict)
            IN  IF ~ left.ok THEN left
                ELSE [ok |-> right.ok, text |-> left.text \o right.text]
        ELSE
            LET w == LeadWidth(bs[1])
                have == IF w = 0 THEN 0 ELSE ContRun(bs, 2, w)
                complete == w > 0 /\ have = w - 1
                            /\ Utf8Char(CodePoint(bs, w)) = SubSeq(bs, 1, w)
                used == IF complete THEN w ELSE 1 + have
                rest == Utf8Decode(SubSeq(bs, used + 1, Len(bs)), strict)
            IN  IF complete
                THEN [ok |-> rest.ok,
                      text |-> << CodePoint(bs, w) >> \o rest.text]
                ELSE IF strict THEN [ok |-> FALSE, text |-> << >>]
                ELSE [ok |-> TRUE,
                      text |-> << REPLACEMENT_CHAR >> \o rest.text]


(***************************************************************************)
(* Tokenizer (ENCODER = tiktoken cl100k_base).                             *)
(***************************************************************************)
\* Every way of cutting a byte string into non-empty tokens.
RECURSIVE Splits(_)
Splits(bs) ==
    IF bs = << >> THEN { << >> }
    ELSE UNION { { << SubSeq(bs, 1, k) >> \o rest :
                       rest \in Splits(SubSeq(bs, k + 1, Len(bs))) } :
                 k \in 1..Len(bs) }

\* ENCODER.encode(text): the tokens' bytes, in order, are the UTF-8 bytes
\* of the text; where the token boundaries fall is the vocabulary's choice.
Encode(text) ==
    Splits(Utf8Encode(text))

\* ENCODER.decode(tokens, errors)
Decode(toks, strict) ==
    Utf8Decode(Concat(toks), strict)

(***************************************************************************)
(* Conversation store (SQLite table conversations).                        *)
(***************************************************************************)
\* ASCII case folding of SQLite's LIKE.
Fold(c) ==
    IF c >= 65 /\ c <= 90 THEN c + 32 ELSE c

\* text LIKE pat: % matches any run of characters, _ any one character.
RECURSIVE Like(_, _)
Like(pat, text) ==
    IF pat = << >> THEN text = << >>
    ELSE IF Head(pat) = 37 THEN
        \/ Like(Tail(pat), text)
        \/ text # << >> /\ Like(pat, Tail(text))
    ELSE IF text = << >> THEN FALSE
    ELSE IF Head(pat) = 95 THEN Like(Tail(pat), Tail(text))
    ELSE Fold(Head(pat)) = Fold(Head(text)) /\ Like(Tail(pat), Tail(text))

RECURSIVE Reverse(_)
Reverse(s) ==
    IF s = << >> THEN << >> ELSE Reverse(Tail(s)) \o << Head(s) >>

\* Default of search_conversations' limit parameter.
SEARCH_LIMIT == 100

\* ConversationDB.search_conversations(query, limit, offset): rows is the
\* table, oldest row first; the result is most recent first.
SearchConversations(rows, query, limit, offset) ==
    LET search_param == << 37 >> \o query \o << 37 >>
        hit(row) == Like(search_param, row.prompt)
                    \/ Like(search_param, row.response)
        ordered == SelectSeq(Reverse(rows), hit)
    IN  SubSeq(ordered, offset + 1,
               IF Len(ordered) < offset + limit THEN Len(ordered)
               ELSE offset + limit)

\* Variant of StoreAfterSearch: the search logs its query as a row.
StoreAfterSearch_Logging(rows, query) ==
    Append(rows, [model_name |-> << >>, prompt |-> query, response |-> << >>])

\* The table after search_conversations (lines 213-225 run one SELECT).
StoreAfterSearch(rows, query) ==
    rows

\* Variant of FindMatchingResponse: the last of the matching conversations
\* is returned.
FindMatchingResponse_Last(rows, prompt, model_name) ==
    LET conversations == SearchConversations(rows, prompt, SEARCH_LIMIT, 0)
        in_model(conv) == IsSubstring(conv.model_name, model_name)
        matching_conversations == SelectSeq(conversations, in_model)
    IN  IF matching_conversations = << >>
        THEN [found |-> FALSE, response |-> << >>]
        ELSE [found |-> TRUE,
              response |->
                  matching_conversations[Len(matching_conversations)].response]

\* Variant of FindMatchingResponse: no match is answered with an empty
\* response text instead of the HTTPException.
FindMatchingResponse_EmptyStream(rows, prompt, model_name) ==
    LET conversations == SearchConversations(rows, prompt, SEARCH_LIMIT, 0)
        in_model(conv) == IsSubstring(conv.model_name, model_name)
        matching_conversations == SelectSeq(conversations, in_model)
    IN  IF matching_conversations = << >>
        THEN [found |-> TRUE, response |-> << >>]
        ELSE [found |-> TRUE, response |-> matching_conversations[1].response]

\* _find_matching_response(prompt, model_name): [found |-> FALSE] is the
\* HTTPException with status 404.
FindMatchingResponse(rows, prompt, model_name) ==
    LET conversations == SearchConversations(rows, prompt, SEARCH_LIMIT, 0)
        in_model(conv) == IsSubstring(conv.model_name, model_name)
        matching_conversations == SelectSeq(conversations, in_model)
    IN  IF matching_conversations = << >>
        THEN [found |-> FALSE, response |-> << >>]
        ELSE [found |-> TRUE, response |-> matching_conversations[1].response]

(***************************************************************************)
(* Pieces of _generate_streaming_response.                                 *)
(***************************************************************************)
\* Variant of ResolveSpeed: the marker is compared with ==, not with `in`.
\* Variant of ResolveSpeed: a key contained in the model name gives its
\* rate.
ResolveSpeed_Contains(cfg, name) ==
    LET hits == { pair \in cfg : IsSubstring(pair[1], name) }
        output_speed == IF hits = { }
                        THEN RInt(DEFAULT_OUTPUT_SPEED)
                        ELSE (CHOOSE pair \in hits : TRUE)[2]
    IN  IF IsSubstring(S_slow, name)
        THEN DictAt(cfg, S_slow)
        ELSE output_speed

ResolveSpeed_ExactMarker(cfg, name) ==
    LET output_speed == DictGet(cfg, name, RInt(DEFAULT_OUTPUT_SPEED))
    IN  IF name = S_slow
        THEN DictAt(cfg, S_slow)
        ELSE output_speed

\* Lines 134-136: the output speed for the model.
ResolveSpeed(cfg, name) ==
    LET output_speed == DictGet(cfg, name, RInt(DEFAULT_OUTPUT_SPEED))
    IN  IF IsSubstring(S_slow, name)
        THEN DictAt(cfg, S_slow)
        ELSE output_speed

\* Variant of PacedTokens: the tokens held in the buffer count as sent.
PacedTokens_WithBuffered(sent, buf) ==
    sent + Len(buf)

\* Lines 160-162: the progress the pacing step compares with the expected
\* one is tokens_sent alone.
PacedTokens(sent, buf) ==
    sent

\* Variant of NextIndex: a token is skipped.
NextIndex_Skip(idx) ==
    idx + 2

\* Line 186: i += 1.
NextIndex(idx) ==
    idx + 1

\* Variant of IsAhead: the 2-token buffer is applied to the ahead test.
IsAhead_WithBuffer(sent, expected) ==
    RLt(RSub(expected, RInt(2)), RInt(sent))

\* Line 160: ahead of schedule.
IsAhead(sent, expected) ==
    RLt(expected, RInt(sent))

\* Line 176: behind schedule by more than the buffer of 2 tokens.
IsBehind(sent, expected) ==
    RLt(RInt(sent), RSub(expected, RInt(2)))

\* Variant of ActualDelay: the two blend weights are swapped.
\* Variant of ActualDelay: the blended delay is slept as it is.
ActualDelay_Unclamped(sf, last, sent, expected, speed) ==
    LET tokens_ahead == RSub(RInt(sent), expected)
        raw_delay == RDiv(tokens_ahead, speed)
    IN  RAdd(RMul(sf, last), RMul(RSub(RInt(1), sf), raw_delay))

ActualDelay_SwappedWeights(sf, last, sent, expected, speed) ==
    LET tokens_ahead == RSub(RInt(sent), expected)
        raw_delay == RDiv(tokens_ahead, speed)
        dynamic_delay == RAdd(RMul(RSub(RInt(1), sf), last),
                              RMul(sf, raw_delay))
    IN  RMax(dynamic_delay, RZero)

\* Lines 162-169: the delay slept when ahead of schedule (speed # 0).
ActualDelay(sf, last, sent, expected, speed) ==
    LET tokens_ahead == RSub(RInt(sent), expected)
        raw_delay == RDiv(tokens_ahead, speed)
        dynamic_delay == RAdd(RMul(sf, last),
                              RMul(RSub(RInt(1), sf), raw_delay))
    IN  RMax(dynamic_delay, RZero)

\* Variant of LastDelayAfter: last_delay is assigned on every branch (the
\* delay is zero when not ahead).
LastDelayAfter_Always(ahead, actual, last) ==
    actual

\* Line 171 and the branches that leave last_delay alone.
LastDelayAfter(ahead, actual, last) ==
    IF ahead THEN actual ELSE last

\* Variant of DecodeBuffer: errors="replace", as in line 204.
\* Variant of DecodeBuffer: the newest token alone is decoded.
DecodeBuffer_LastToken(buf) ==
    Decode(<< buf[Len(buf)] >>, TRUE)

DecodeBuffer_Replace(buf) ==
    Decode(buf, FALSE)

\* Line 193: the strict decode of the token buffer.
DecodeBuffer(buf) ==
    Decode(buf, TRUE)

\* Variant of TokensSentAfter: tokens_sent += i
\* Variant of TokensSentAfter: chunks are counted, not tokens.
TokensSentAfter_One(sent, buf, idx) ==
    sent + 1

TokensSentAfter_Index(sent, buf, idx) ==
    sent + idx

\* Line 195; idx is i after line 186.
TokensSentAfter(sent, buf, idx) ==
    sent + Len(buf)

\* Variant of BufferAfterEmit: the buffer is not reset.
BufferAfterEmit_Keep(buf) ==
    buf

\* Line 196
BufferAfterEmit(buf) ==
    << >>

\* Variant of BufferAfterDecodeError: the tokens that did not decode are
\* dropped.
BufferAfterDecodeError_Drop(buf) ==
    << >>

\* Lines 197-198: `continue` leaves the buffer as it is.
BufferAfterDecodeError(buf) ==
    buf

\* _format_sse_message(content): "data: " + json.dumps(data) + "\n\n"
FormatSseMessage(content) ==
    [field |-> "data",
     json |-> [choices |-> << [delta |-> [content |-> content]] >>]]

ContentOf(msg) ==
    msg.json.choices[1].delta.content

\* Variant of TerminalMessages: a closing event with an empty delta.
TerminalMessages_Closing ==
    << FormatSseMessage(<< >>) >>

\* Lines 211-222: what the generator yields after the last chunk.
TerminalMessages ==
    << >>


(***************************************************************************)
(* State.                                                                  *)
(***************************************************************************)
VARIABLES
    db,               \* rows of table conversations, oldest first
    searches,         \* calls of db.search_conversations made so far
    speeds,           \* the dict MODEL_OUTPUT_SPEEDS
    request,          \* JSON body of the POST /chat/completions request
    pc,               \* where the request's handling stands
    status,           \* HTTP status sent to the client, 0 before any
    error,            \* exception that ended the generator, "" if none
    response_text, model_name, debug_mode, smoothing_factor,
    output_speed, start_time, tokens_sent, tokens, total_tokens,
    last_delay, token_buffer, i, elapsed_time, expected_tokens,
    emitted,          \* SSE messages yielded so far, in order
    now,              \* time.time()
    ticks,            \* clock ticks passed besides sleeps
    pace,             \* what the latest pacing step (lines 156-181) did
    sessions,         \* concurrent requests: the state of each one's task
    holder,           \* the task running on the event loop's thread, 0: none
    cur,              \* the task that took the latest step, 0: none
    llm,              \* a call of LLMClient.make_request and its upstream
    sse,              \* an SSE stream read by ClientTest._process_stream
    batch             \* a run of batch_process_models and its threads

locals ==
    << response_text, model_name, debug_mode, smoothing_factor, output_speed,
       start_time, tokens_sent, tokens, total_tokens, last_delay,
       token_buffer, i, elapsed_time, expected_tokens >>

\* The state of the concurrent requests.
conc ==
    << sessions, holder, cur >>

\* The state of the clients (llm_client.py, client.py, make_a_request.py).
peers ==
    << llm, sse, batch >>

vars ==
    << db, searches, speeds, request, pc, status, error, locals, emitted,
       now, ticks, pace, conc, peers >>

\* No call of LLMClient.make_request is under way.
NoCall ==
    [pc |-> "none"]

\* No stream is being read by ClientTest.
NoStream ==
    [pc |-> "none"]

\* No batch_process_models is under way.
NoBatch ==
    [pc |-> "none"]

\* An optional key of the request body is a sequence of no or one value;
\* this is data.get(key, default).
DataGet(opt, default) ==
    IF opt = << >> THEN default ELSE opt[1]

NoPace ==
    [kind |-> "none", sent |-> 0, buffered |-> 0, elapsed |-> RZero,
     expected |-> RZero, speed |-> RZero, sf |-> RZero,
     prev_delay |-> RZero, slept |-> RZero]

(***************************************************************************)
(* Inputs.                                                                 *)
(***************************************************************************)
\* 'A' (1 byte), e-acute (2 bytes), euro sign (3 bytes).
Chars == { 65, 233, 8364 }

RECURSIVE TextsOfBytes(_)
TextsOfBytes(n) ==
    IF n = 0 THEN { << >> }
    ELSE UNION { { << c >> \o t : t \in TextsOfBytes(n - Len(Utf8Char(c))) } :
                 c \in { x \in Chars : Len(Utf8Char(x)) <= n } }

Texts ==
    UNION { TextsOfBytes(n) : n \in 0..MaxTextBytes }

S_ab == << 97, 98 >>
S_a == << 97 >>
S_e_acute == << 233 >>
S_o1_slow == S_o1 \o << 45 >> \o S_slow

\* The store holds no row, or one row recorded for model "o1" and prompt
\* "ab" with any response text.
Stores ==
    { << >> } \cup
    { << [model_name |-> S_o1, prompt |-> S_ab, response |-> t] >> :
        t \in Texts }

Requests ==
    [ prompt : { S_a, S_e_acute },
      model : { S_o1, S_o1_slow, S_o3_mini },
      debug_mode : { << >>, << TRUE >> },
      smoothing_factor : { << >>, << R(0, 1) >>, << R(3, 2) >> } ]

\* One clock tick, in seconds.
Tick == R(1, 20)

InitServer(stores, requests, configs) ==
    /\ db \in stores
    /\ searches = 0
    /\ holder = 0
    /\ cur = 0
    /\ request \in requests
    /\ speeds \in configs
    /\ pc = "request"
    /\ status = 0
    /\ error = ""
    /\ response_text = << >>
    /\ model_name = << >>
    /\ debug_mode = FALSE
    /\ smoothing_factor = RZero
    /\ output_speed = RZero
    /\ start_time = RZero
    /\ tokens_sent = 0
    /\ tokens = << >>
    /\ total_tokens = 0
    /\ last_delay = RZero
    /\ token_buffer = << >>
    /\ i = 0
    /\ elapsed_time = RZero
    /\ expected_tokens = RZero
    /\ emitted = << >>
    /\ now = RZero
    /\ ticks = 0
    /\ pace = NoPace

\* The server with one request and no other connection.
InitWith(stores, requests, configs) ==
    /\ InitServer(stores, requests, configs)
    /\ sessions = << >>
    /\ llm = NoCall
    /\ sse = NoStream
    /\ batch = NoBatch

Init ==
    InitWith(Stores, Requests, { MODEL_OUTPUT_SPEEDS })


(***************************************************************************)
(* Operations.                                                             *)
(***************************************************************************)
\* Default of the request's smoothing_factor (line 66).
DEFAULT_SMOOTHING == R(7, 10)

\* chat_completions, lines 59-80: parse the request, find the response
\* (HTTPException 404 when there is none), create the streaming response.
ChatCompletions ==
    /\ pc = "request"
    /\ LET found == FindMatchingResponse(db, request.prompt, request.model)
       IN  /\ db' = StoreAfterSearch(db, request.prompt)
           /\ searches' = searches + 1
           /\ model_name' = request.model
           /\ debug_mode' = DataGet(request.debug_mode, FALSE)
           /\ smoothing_factor' =
                  DataGet(request.smoothing_factor, DEFAULT_SMOOTHING)
           /\ IF found.found
              THEN /\ response_text' = found.response
                   /\ status' = 200
                   /\ pc' = "created"
              ELSE /\ response_text' = response_text
                   /\ status' = 404
                   /\ pc' = "not_found"
    /\ UNCHANGED << speeds, request, error, output_speed, start_time,
                    tokens_sent, tokens, total_tokens, last_delay,
                    token_buffer, i, elapsed_time, expected_tokens, emitted,
                    now, ticks, pace, conc, peers >>

\* _generate_streaming_response, lines 133-152: up to the loop.
GenStartWith(tokenizations) ==
    /\ pc = "created"
    /\ output_speed' = ResolveSpeed(speeds, model_name)
    /\ start_time' = now
    /\ tokens_sent' = 0
    /\ \E toks \in tokenizations :
           /\ tokens' = toks
           /\ total_tokens' = Len(toks)
    /\ last_delay' = RZero
    /\ token_buffer' = << >>
    /\ i' = 0
    /\ pc' = "loop"
    /\ UNCHANGED << db, searches, speeds, request, status, error,
                    response_text, model_name, debug_mode, smoothing_factor,
                    elapsed_time, expected_tokens, emitted, now, ticks, pace,
                    conc, peers >>

GenStart ==
    GenStartWith(Encode(response_text))

\* The clock ticks that can pass before the next reading of the clock.
TickChoices ==
    IF ticks < MaxClockTicks THEN { 0, 1 } ELSE { 0 }

\* One iteration of the loop, lines 154-198: the pacing step, then the
\* next token is appended and the buffer decoded and, if it decodes, sent.
LoopIter ==
    /\ pc = "loop"
    /\ i < Len(tokens)
    /\ \E dt \in TickChoices :
         LET t1 == RAdd(now, RMul(RInt(dt), Tick))
             et == RSub(t1, start_time)
             ex == RMul(et, output_speed)
             paced == PacedTokens(tokens_sent, token_buffer)
             ahead == IsAhead(paced, ex)
             observed ==
                 [kind |-> IF ahead THEN "ahead"
                           ELSE IF IsBehind(paced, ex) THEN "behind"
                           ELSE "band",
                  sent |-> paced, buffered |-> Len(token_buffer),
                  elapsed |-> et, expected |-> ex, speed |-> output_speed,
                  sf |-> smoothing_factor, prev_delay |-> last_delay,
                  slept |-> RZero]
         IN  /\ ticks' = ticks + dt
             /\ elapsed_time' = et
             /\ expected_tokens' = ex
             /\ IF ahead /\ output_speed = RZero
                THEN \* line 163 raises ZeroDivisionError
                     /\ pc' = "error"
                     /\ error' = "ZeroDivisionError"
                     /\ now' = t1
                     /\ pace' = observed
                     /\ UNCHANGED << last_delay, i, token_buffer, emitted,
                                     tokens_sent >>
                ELSE LET actual_delay ==
                             IF ahead
                             THEN ActualDelay(smoothing_factor, last_delay,
                                              paced, ex, output_speed)
                             ELSE RZero
                         buf == Append(token_buffer, tokens[i + 1])
                         chunk == DecodeBuffer(buf)
                     IN  /\ now' = RAdd(t1, actual_delay)
                         /\ last_delay' =
                                LastDelayAfter(ahead, actual_delay, last_delay)
                         /\ pace' = [observed EXCEPT !.slept = actual_delay]
                         /\ i' = NextIndex(i)
                         /\ IF chunk.ok
                            THEN /\ emitted' = Append(emitted,
                                            FormatSseMessage(chunk.text))
                                 /\ tokens_sent' =
                                        TokensSentAfter(tokens_sent, buf,
                                                        NextIndex(i))
                                 /\ token_buffer' = BufferAfterEmit(buf)
                            ELSE /\ token_buffer' = BufferAfterDecodeError(buf)
                                 /\ UNCHANGED << emitted, tokens_sent >>
                         /\ UNCHANGED << pc, error >>
    /\ UNCHANGED << db, searches, speeds, request, status, response_text,
                    model_name, debug_mode, smoothing_factor, output_speed,
                    start_time, tokens, total_tokens, conc, peers >>

\* Lines 201-222, after the loop: the remaining tokens are sent, decoded
\* with errors="replace"; the debug statistics divide by total_tokens
\* (line 213) and by the total time (line 222).
Finish ==
    /\ pc = "loop"
    /\ i >= Len(tokens)
    /\ \E dt \in (IF debug_mode THEN TickChoices ELSE { 0 }) :
         LET final_chunk == Decode(token_buffer, FALSE)
             sent == IF token_buffer # << >>
                     THEN tokens_sent + Len(token_buffer)
                     ELSE tokens_sent
             t1 == RAdd(now, RMul(RInt(dt), Tick))
             final_time == RSub(t1, start_time)
             raises == debug_mode
                       /\ \/ sent % 20 = 0 /\ total_tokens = 0
                          \/ final_time = RZero
         IN  /\ emitted' = (IF token_buffer # << >>
                            THEN Append(emitted,
                                        FormatSseMessage(final_chunk.text))
                            ELSE emitted) \o TerminalMessages
             /\ tokens_sent' = sent
             /\ now' = t1
             /\ ticks' = ticks + dt
             /\ pc' = IF raises THEN "error" ELSE "done"
             /\ error' = IF raises THEN "ZeroDivisionError" ELSE ""
    /\ UNCHANGED << db, searches, speeds, request, status, response_text,
                    model_name, debug_mode, smoothing_factor, output_speed,
                    start_time, tokens, total_tokens, last_delay, token_buffer,
                    i, elapsed_time, expected_tokens, pace, conc,
                    peers >>

Next ==
    \/ ChatCompletions
    \/ GenStart
    \/ LoopIter
    \/ Finish

Spec ==
    Init /\ [][Next]_vars

\* The same server deployed with another speed configured for "slow":
\* the dict of lines 21-36 is the deployment's configuration, and nothing
\* in the code checks the speeds it holds.
Configs ==
    { MODEL_OUTPUT_SPEEDS,
      DictSet(MODEL_OUTPUT_SPEEDS, S_slow, RZero),
      DictSet(MODEL_OUTPUT_SPEEDS, S_slow, R(-15, 1)) }

InitCfg ==
    InitWith(Stores, Requests, Configs)

SpecCfg ==
    InitCfg /\ [][Next]_vars


(***************************************************************************)
(* Properties.                                                             *)
(***************************************************************************)
\* The generator has started (lines 133-152 have run).
Started ==
    pc \in { "loop", "done", "error" }

\* The contents of the emitted messages, concatenated in emission order.
EmittedText ==
    Concat([k \in 1..Len(emitted) |-> ContentOf(emitted[k])])

\* Number of bytes held by the first k tokens.
ByteOffset(k) ==
    Len(Concat(SubSeq(tokens, 1, k)))

\* The byte offsets of text at which a character ends (or the text starts).
CharBoundaries(text) ==
    { Len(Utf8Encode(SubSeq(text, 1, k))) : k \in 0..Len(text) }

\* C1 (lossless replay): when the generator has run to completion, the
\* contents of all emitted chunks, concatenated in emission order, are the
\* response text.
C1_LosslessReplay ==
    pc = "done" => EmittedText = response_text

\* A replay of several characters completed in several chunks, one of them
\* made of more than one token.
C1_Witness ==
    /\ pc = "done"
    /\ Len(response_text) >= 2
    /\ Len(emitted) >= 2
    /\ Len(emitted) < total_tokens

\* C2 (token-boundary safety): every emission ends on a character boundary
\* of the response text, and no emitted chunk holds a replacement
\* character standing for part of a character.
C2_TokenBoundarySafety ==
    Started =>
        /\ ByteOffset(tokens_sent) \in CharBoundaries(response_text)
        /\ \A k \in 1..Len(emitted) :
               \A j \in 1..Len(ContentOf(emitted[k])) :
                   ContentOf(emitted[k])[j] \in Chars

\* A completed replay whose first token ends in the middle of a character.
C2_Witness ==
    /\ pc = "done"
    /\ tokens # << >>
    /\ ~ Utf8Decode(tokens[1], TRUE).ok
    /\ emitted # << >>

\* C3 (monotonic progress): no step decreases tokens_sent, and tokens_sent
\* never exceeds total_tokens.
C3_MonotonicProgress ==
    [][tokens_sent <= tokens_sent' /\ tokens_sent' <= total_tokens']_vars

\* All of at least two tokens were sent, in at least two chunks.
C3_Witness ==
    /\ total_tokens >= 2
    /\ tokens_sent = total_tokens
    /\ Len(emitted) >= 2


\* A pacing step has run and pace describes it.
Paced ==
    pace.kind # "none"

\* tokens_sent - expected at the latest pacing step.
PaceAhead ==
    RSub(RInt(pace.sent), pace.expected)

\* C4 as stated (dead band in either direction): a pacing step at which
\* tokens_sent differs from expected by at most 2 tokens sleeps for zero
\* time.
C4_DeadBandEitherDirection ==
    (Paced /\ RLe(PaceAhead, RInt(2)) /\ RLe(RInt(-2), PaceAhead))
        => pace.slept = RZero

\* C4 as amended: a pacing step at which tokens_sent is not above expected
\* and at most 2 tokens below it sleeps for zero time.
C4_DeadBandNotAhead ==
    (Paced /\ RLe(PaceAhead, RZero) /\ RLe(RInt(-2), PaceAhead))
        => pace.slept = RZero

\* A step strictly behind schedule, inside the 2-token band, taken after
\* an earlier step has slept.
C4_Witness ==
    /\ pace.kind = "band"
    /\ RLt(PaceAhead, RZero)
    /\ RLt(RZero, pace.prev_delay)

\* C5 (ahead-of-schedule step): a pacing step with tokens_sent > expected
\* sleeps for max(a * last_delay + (1 - a) * (tokens_sent - expected) /
\* target_rate, 0), and last_delay is then the duration slept.
C5_AheadStep ==
    (Paced /\ pc # "error" /\ RLt(RZero, PaceAhead)) =>
        /\ pace.slept =
               RMax(RAdd(RMul(pace.sf, pace.prev_delay),
                         RDiv(RMul(RSub(RInt(1), pace.sf), PaceAhead),
                              pace.speed)),
                    RZero)
        /\ last_delay = pace.slept
        /\ pace.expected = RMul(pace.elapsed, pace.speed)

\* An ahead step that blended a positive previous delay with the default
\* smoothing factor and slept.
C5_Witness ==
    /\ pace.kind = "ahead"
    /\ pace.sf = R(7, 10)
    /\ RLt(RZero, pace.prev_delay)
    /\ RLt(RZero, pace.slept)
    /\ pace.slept # pace.prev_delay

\* C6 (not-ahead step): a pacing step with tokens_sent <= expected does
\* not sleep and leaves last_delay as it was.
C6_NotAheadStep ==
    (Paced /\ RLe(PaceAhead, RZero)) =>
        /\ pace.slept = RZero
        /\ last_delay = pace.prev_delay

\* A step more than 2 tokens behind schedule that carried a positive
\* last_delay over.
C6_Witness ==
    /\ pace.kind = "behind"
    /\ RLt(RZero, pace.prev_delay)
    /\ last_delay = pace.prev_delay

\* Row matches the request: its prompt or response holds the requested
\* prompt (LIKE) and its model name is part of the requested model.
RowMatches(row) ==
    LET pat == << 37 >> \o request.prompt \o << 37 >>
    IN  /\ Like(pat, row.prompt) \/ Like(pat, row.response)
        /\ IsSubstring(row.model_name, request.model)

\* C7 (not found): when no row of the store matches the request, the
\* request is answered with status 404, no generator runs and nothing is
\* emitted.
C7_NotFound ==
    (pc # "request" /\ \A k \in 1..Len(db) : ~ RowMatches(db[k])) =>
        /\ status = 404
        /\ pc = "not_found"
        /\ emitted = << >>
        /\ ~ ENABLED Next

\* A request answered 404 although the store holds a row.
C7_Witness ==
    /\ pc = "not_found"
    /\ status = 404
    /\ db # << >>

\* The request carries a smoothing_factor outside [0, 1].
SmoothingOutOfRange ==
    /\ request.smoothing_factor # << >>
    /\ \/ RLt(request.smoothing_factor[1], RZero)
       \/ RLt(RInt(1), request.smoothing_factor[1])

\* C8 (smoothing-factor validation): for a request whose smoothing_factor
\* lies outside [0, 1] no chunk is emitted and no pacing step runs.
C8_SmoothingValidated ==
    SmoothingOutOfRange => (emitted = << >> /\ ~ Paced)

C10_SlowOverride ==
    (Started /\ IsSubstring(S_slow, request.model)) =>
        output_speed = DictAt(speeds, S_slow)

\* A completed replay for "o1-slow" at the slow rate, which is neither the
\* rate of "o1" nor the default.
C10_Witness ==
    /\ pc = "done"
    /\ request.model = S_o1_slow
    /\ emitted # << >>
    /\ output_speed = R(15, 1)
    /\ DictAt(speeds, S_o1) # output_speed
    /\ RInt(DEFAULT_OUTPUT_SPEED) # output_speed

\* ---------------------------------------------------------------------
\* Stores of several rows (database.py lines 61-83 insert them one by one,
\* each with the timestamp of its insertion, so that the table's order is
\* the order of the timestamps).
\* ---------------------------------------------------------------------

\* Largest number of rows of a store.
MaxRows == 2

S_b == << 98 >>
S_A == << 65 >>

StoreRows ==
    [ model_name : { S_o1, S_slow },
      prompt : { S_ab, S_b },
      response : { S_A, S_e_acute } ]

StoresOfRows(n) ==
    UNION { [ 1..k -> StoreRows ] : k \in 0..n }

StoreRequests ==
    [ prompt : { S_a, S_e_acute },
      model : { S_o1, S_o1_slow },
      debug_mode : { << >> },
      smoothing_factor : { << >> } ]

InitStore ==
    InitWith(StoresOfRows(MaxRows), StoreRequests, { MODEL_OUTPUT_SPEEDS })

SpecStore ==
    InitStore /\ [][Next]_vars

\* The rows of the table that the locator accepts for the request.
MatchingRows ==
    { k \in 1..Len(db) : RowMatches(db[k]) }

\* The most recent of the rows the locator accepts.
MostRecentMatch ==
    CHOOSE k \in MatchingRows : \A j \in MatchingRows : j <= k

\* C11 (locator selection): when some row of the store passes the search
\* and has a model name contained in the requested model, the request is
\* answered with the response of the most recent such row, and with no
\* other row's response.
C11_LocatorSelection ==
    (pc # "request" /\ MatchingRows # { }) =>
        /\ status = 200
        /\ response_text = db[MostRecentMatch].response

\* The most recent row passes the search but its model name is not in the
\* requested model; the older row, with another response, is returned.
C11_Witness ==
    /\ pc # "request"
    /\ Len(db) = 2
    /\ MatchingRows = { 1 }
    /\ Like(<< 37 >> \o request.prompt \o << 37 >>, db[2].prompt)
    /\ db[2].response # db[1].response
    /\ response_text = db[1].response

\* C12 (locator prompt matching): the row whose response is returned has a
\* recorded prompt that contains the requested prompt.
C12_PromptContains ==
    (pc # "request" /\ status = 200) =>
        IsSubstring(request.prompt, db[MostRecentMatch].prompt)

\* ---------------------------------------------------------------------
\* Empty responses, decode failures, the end of the stream, the store.
\* ---------------------------------------------------------------------

\* C16 (empty response): when the response text encodes to zero tokens the
\* generator, once it has left its loop, has completed without an error,
\* without a message and without a pacing step, whatever the optional
\* request parameters are.
C16_EmptyResponse ==
    (pc \in { "done", "error" } /\ total_tokens = 0) =>
        /\ pc = "done"
        /\ emitted = << >>
        /\ ~ Paced

\* C18 (recovered decode failure): an iteration whose buffer, with the next
\* token appended, does not decode emits no message, raises no error and
\* leaves in the buffer the tokens it held followed by the new token, so
\* that the token after it joins the same buffer.
C18_DecodeFailureRecovered ==
    [][(/\ pc = "loop"
        /\ i' = i + 1
        /\ ~ Decode(Append(token_buffer, tokens[i + 1]), TRUE).ok) =>
           /\ emitted' = emitted
           /\ tokens_sent' = tokens_sent
           /\ pc' = "loop"
           /\ error' = ""
           /\ token_buffer' = Append(token_buffer, tokens[i + 1])]_vars

\* Two iterations in a row have failed to decode: the buffer holds both
\* tokens and nothing was emitted for them.
C18_Witness ==
    /\ pc = "loop"
    /\ Len(token_buffer) = 2
    /\ token_buffer = SubSeq(tokens, i - 1, i)
    /\ error = ""

\* C19 (terminal framing): once every token of a non-empty response has
\* been sent, the generator emits no further message and its next step
\* ends it.
C19_TerminalFraming ==
    [][(/\ pc = "loop"
        /\ total_tokens > 0
        /\ tokens_sent = total_tokens) =>
           /\ emitted' = emitted
           /\ pc' \in { "done", "error" }]_vars

\* A stream that has ended after the chunk holding its last token.
C19_Witness ==
    /\ pc = "done"
    /\ total_tokens > 0
    /\ tokens_sent = total_tokens
    /\ Len(emitted) >= 1
    /\ token_buffer = << >>

\* C20 (read-only engine): no step of a request changes the table, and the
\* request calls search_conversations exactly once: no call before the
\* handler has run, one call ever after, whether the request is answered
\* 200 or 404 or its generator fails.
C20_ReadOnlyEngine ==
    [][/\ db' = db
       /\ searches' = (IF pc' = "request" THEN 0 ELSE 1)]_vars

\* A request served to its end from a store that holds a row.
C20_Witness ==
    /\ pc \in { "done", "error" }
    /\ db # << >>
    /\ searches = 1

\* ---------------------------------------------------------------------
\* Long replays, one token per chunk.
\* ---------------------------------------------------------------------

\* Number of tokens of the long replay.
MaxTokens == 500

\* A text of n letters A.
TextOfA(n) ==
    [k \in 1..n |-> 65]

\* The tokenization, among those of Encode, that has one token for each
\* byte: on a text of letters every token decodes on its own, so that
\* every chunk holds one token.
EncodePerByte(text) ==
    { [k \in 1..Len(Utf8Encode(text)) |-> << Utf8Encode(text)[k] >>] }

GenStartPerByte ==
    GenStartWith(EncodePerByte(response_text))

RateStores ==
    { << [model_name |-> S_o1, prompt |-> S_ab,
          response |-> TextOfA(MaxTokens)] >> }

RateRequests ==
    [ prompt : { S_a },
      model : { S_o1 },
      debug_mode : { << >> },
      smoothing_factor : { << R(0, 1) >>, << R(1, 1) >> } ]

InitRate ==
    InitWith(RateStores, RateRequests, { MODEL_OUTPUT_SPEEDS })

NextRate ==
    \/ ChatCompletions
    \/ GenStartPerByte
    \/ LoopIter
    \/ Finish

SpecRate ==
    InitRate /\ [][NextRate]_vars

\* Time from the start of the generator to now.
TotalElapsed ==
    RSub(now, start_time)

\* C17 (rate convergence): when a replay of at least 500 tokens, one token
\* per chunk, has completed, the number of tokens lies within 15% of the
\* target rate times the elapsed time (the average rate lies within 15% of
\* the target rate).
C17_RateConvergence ==
    (pc = "done" /\ total_tokens >= 500) =>
        LET due == RMul(output_speed, TotalElapsed)
        IN  /\ RLe(RMul(R(85, 100), due), RInt(total_tokens))
            /\ RLe(RInt(total_tokens), RMul(R(115, 100), due))

\* The same bound for the requests that weigh the new delay fully
\* (smoothing_factor 0).
RateConvergesWhenProportional ==
    (pc = "done" /\ total_tokens >= 500 /\ smoothing_factor = RZero) =>
        LET due == RMul(output_speed, TotalElapsed)
        IN  /\ RLe(RMul(R(85, 100), due), RInt(total_tokens))
            /\ RLe(RInt(total_tokens), RMul(R(115, 100), due))

\* ---------------------------------------------------------------------
\* Concurrent requests.  The ASGI server runs every handler and every
\* generator on the one thread of its event loop: a generator that has been
\* resumed keeps the thread until its next yield or its return, since
\* lines 133-222 hold no await, and time.sleep (line 170) keeps the thread
\* for the length of the sleep.  holder is the session that has the thread.
\* Computation takes no time here; only sleeps advance the clock.
\* ---------------------------------------------------------------------

\* Number of concurrent requests.
MaxSessions == 2

Sessions == 1..MaxSessions

S_AA == << 65, 65 >>

\* Two rows: prompt "ab" with response "AA", prompt "é" with response "é".
ConcStores ==
    { << [model_name |-> S_o1, prompt |-> S_ab, response |-> S_AA],
         [model_name |-> S_o1, prompt |-> S_e_acute,
          response |-> S_e_acute] >> }

ConcRequests ==
    [ prompt : { S_a, S_e_acute },
      model : { S_o1 },
      debug_mode : { << >> },
      smoothing_factor : { << >> } ]

\* A connection whose request body has arrived and whose handler has not
\* run yet.
NewSession(req) ==
    [ request |-> req, pc |-> "request", status |-> 0, error |-> "",
      response_text |-> << >>, smoothing_factor |-> RZero,
      output_speed |-> RZero, start_time |-> RZero, tokens_sent |-> 0,
      tokens |-> << >>, total_tokens |-> 0, last_delay |-> RZero,
      token_buffer |-> << >>, i |-> 0, wake |-> RZero, emitted |-> << >>,
      disconnected |-> FALSE ]

InitConc ==
    /\ InitServer(ConcStores, ConcRequests, { MODEL_OUTPUT_SPEEDS })
    /\ sessions \in [ Sessions -> { NewSession(req) : req \in ConcRequests } ]
    /\ llm = NoCall
    /\ sse = NoStream
    /\ batch = NoBatch

\* Variant of StorePlan: last_delay is kept in one place for all requests.
StorePlan_SharedDelay(ss, s, plan) ==
    [t \in DOMAIN ss |->
        IF t = s THEN plan
        ELSE [ss[t] EXCEPT !.last_delay = plan.last_delay]]

\* Lines 138-152: the plan is held in local variables of the generator
\* call, one set for each request.
StorePlan(ss, s, plan) ==
    [ss EXCEPT ![s] = plan]

\* What every step of session s leaves alone.
SessionFrame ==
    UNCHANGED << db, searches, speeds, request, pc, status, error, locals,
                 emitted, ticks, pace, peers >>

\* chat_completions for session s, lines 45-80.
Handle(s) ==
    LET me == sessions[s]
        found == FindMatchingResponse(db, me.request.prompt, me.request.model)
    IN  /\ me.pc = "request"
        /\ holder = 0
        /\ sessions' = StorePlan(sessions, s,
               IF found.found
               THEN [me EXCEPT !.pc = "created", !.status = 200,
                               !.response_text = found.response,
                               !.smoothing_factor =
                                   DataGet(me.request.smoothing_factor,
                                           DEFAULT_SMOOTHING)]
               ELSE [me EXCEPT !.pc = "not_found", !.status = 404])
        /\ cur' = s
        /\ UNCHANGED << holder, now >>
        /\ SessionFrame

\* The first resumption of the generator of session s: lines 133-152.
Start(s) ==
    LET me == sessions[s]
    IN  /\ me.pc = "created"
        /\ ~ me.disconnected
        /\ holder = 0
        /\ \E toks \in EncodePerByte(me.response_text) :
             sessions' = StorePlan(sessions, s,
                 [me EXCEPT !.pc = "loop",
                            !.output_speed =
                                ResolveSpeed(speeds, me.request.model),
                            !.start_time = now, !.tokens_sent = 0,
                            !.tokens = toks, !.total_tokens = Len(toks),
                            !.last_delay = RZero, !.token_buffer = << >>,
                            !.i = 0])
        /\ holder' = s
        /\ cur' = s
        /\ UNCHANGED now
        /\ SessionFrame

\* Lines 154-181 for session s: the pacing step up to the call of
\* time.sleep, or up to line 183 when the step does not sleep.
Pace(s) ==
    LET me == sessions[s]
        et == RSub(now, me.start_time)
        ex == RMul(et, me.output_speed)
        ahead == IsAhead(me.tokens_sent, ex)
        actual_delay == ActualDelay(me.smoothing_factor, me.last_delay,
                                    me.tokens_sent, ex, me.output_speed)
    IN  /\ me.pc = "loop"
        /\ holder = s
        /\ me.i < Len(me.tokens)
        /\ sessions' = StorePlan(sessions, s,
               IF ahead
               THEN [me EXCEPT !.pc = "sleeping",
                               !.wake = RAdd(now, actual_delay),
                               !.last_delay =
                                   LastDelayAfter(ahead, actual_delay,
                                                  me.last_delay)]
               ELSE [me EXCEPT !.pc = "append"])
        /\ cur' = s
        /\ UNCHANGED << holder, now >>
        /\ SessionFrame

\* time.sleep returns in session s: the thread was kept for the whole
\* sleep.
Wake(s) ==
    LET me == sessions[s]
    IN  /\ me.pc = "sleeping"
        /\ holder = s
        /\ now' = RMax(now, me.wake)
        /\ sessions' = StorePlan(sessions, s, [me EXCEPT !.pc = "append"])
        /\ cur' = s
        /\ UNCHANGED holder
        /\ SessionFrame

\* Lines 184-198 for session s, up to the yield of line 194, where the
\* generator is suspended and the thread is given back, or to the
\* `continue` of line 198.
AppendToken(s) ==
    LET me == sessions[s]
        buf == Append(me.token_buffer, me.tokens[me.i + 1])
        chunk == DecodeBuffer(buf)
    IN  /\ me.pc = "append"
        /\ holder = s
        /\ sessions' = StorePlan(sessions, s,
               IF chunk.ok
               THEN [me EXCEPT !.pc = "yielded", !.i = me.i + 1,
                               !.token_buffer = buf,
                               !.emitted =
                                   Append(me.emitted,
                                          FormatSseMessage(chunk.text))]
               ELSE [me EXCEPT !.pc = "loop", !.i = me.i + 1,
                               !.token_buffer = BufferAfterDecodeError(buf)])
        /\ holder' = IF chunk.ok THEN 0 ELSE s
        /\ cur' = s
        /\ UNCHANGED now
        /\ SessionFrame

\* The consumer asks session s for the next chunk: the generator goes on
\* after the yield, lines 195-196.
Resume(s) ==
    LET me == sessions[s]
    IN  /\ me.pc = "yielded"
        /\ ~ me.disconnected
        /\ holder = 0
        /\ sessions' = StorePlan(sessions, s,
               [me EXCEPT !.pc = "loop",
                          !.tokens_sent =
                              TokensSentAfter(me.tokens_sent, me.token_buffer,
                                              me.i),
                          !.token_buffer = BufferAfterEmit(me.token_buffer)])
        /\ holder' = s
        /\ cur' = s
        /\ UNCHANGED now
        /\ SessionFrame

\* Lines 201-222 for session s, debug_mode being off: the remainder, if
\* any, is sent and the generator returns.
Return(s) ==
    LET me == sessions[s]
        final_chunk == Decode(me.token_buffer, FALSE)
    IN  /\ me.pc = "loop"
        /\ holder = s
        /\ me.i >= Len(me.tokens)
        /\ sessions' = StorePlan(sessions, s,
               IF me.token_buffer # << >>
               THEN [me EXCEPT !.pc = "done",
                               !.tokens_sent =
                                   me.tokens_sent + Len(me.token_buffer),
                               !.emitted =
                                   Append(me.emitted,
                                          FormatSseMessage(final_chunk.text))
                                       \o TerminalMessages]
               ELSE [me EXCEPT !.pc = "done",
                               !.emitted = me.emitted \o TerminalMessages])
        /\ holder' = 0
        /\ cur' = s
        /\ UNCHANGED now
        /\ SessionFrame

\* The session's generator is suspended (before its first resumption or at
\* the yield of line 194) or asleep in time.sleep: the states that last.
Lasting(me) ==
    me.pc \in { "created", "yielded", "sleeping" }

\* The caller of session s closes its connection while the stream is open.
Disconnect(s) ==
    LET me == sessions[s]
    IN  /\ Lasting(me)
        /\ ~ me.disconnected
        /\ sessions' = [sessions EXCEPT ![s].disconnected = TRUE]
        /\ cur' = 0
        /\ UNCHANGED << holder, now >>
        /\ SessionFrame

\* The server, its thread being free, takes notice of the disconnection of
\* session s and closes the suspended generator: GeneratorExit is raised at
\* the yield, `except UnicodeDecodeError` (line 197) does not catch it, and
\* the generator's variables are released.
Cancel(s) ==
    LET me == sessions[s]
    IN  /\ me.pc \in { "created", "yielded" }
        /\ me.disconnected
        /\ holder = 0
        /\ sessions' = StorePlan(sessions, s,
               [me EXCEPT !.pc = "cancelled", !.token_buffer = << >>])
        /\ cur' = s
        /\ UNCHANGED << holder, now >>
        /\ SessionFrame

NextConc ==
    \E s \in Sessions :
        \/ Handle(s)
        \/ Start(s)
        \/ Pace(s)
        \/ Wake(s)
        \/ AppendToken(s)
        \/ Resume(s)
        \/ Return(s)
        \/ Disconnect(s)
        \/ Cancel(s)

SpecConc ==
    InitConc /\ [][NextConc]_vars

\* Session s is in flight and waits only for the thread: its generator is
\* suspended and its caller is connected.
Ready(s) ==
    /\ sessions[s].pc \in { "created", "yielded" }
    /\ ~ sessions[s].disconnected

\* C13 (independent sessions): while a session is asleep in its pacing
\* step, every other session that is in flight and ready can take its next
\* step.
C13_IndependentSessions ==
    \A a, b \in Sessions :
        (a # b /\ sessions[a].pc = "sleeping" /\ Ready(b)) =>
            ENABLED (Start(b) \/ Resume(b))

\* The emission plan of a session.
PlanOf(me) ==
    << me.start_time, me.tokens_sent, me.total_tokens, me.last_delay,
       me.token_buffer >>

\* C14 (plan isolation): a step taken by one request leaves the emission
\* plan (start time, tokens_sent, total_tokens, last_delay, token buffer)
\* of every other request as it was.
C14_PlanIsolation ==
    [][\A s \in Sessions :
          cur' # s => PlanOf(sessions'[s]) = PlanOf(sessions[s])]_vars

\* Two requests are being replayed at once, with different plans: one has
\* slept and sent a chunk more than the other.
C14_Witness ==
    \E a, b \in Sessions :
        /\ a # b
        /\ sessions[a].pc \in { "loop", "sleeping", "append", "yielded" }
        /\ sessions[b].pc \in { "loop", "sleeping", "append", "yielded" }
        /\ sessions[a].last_delay # sessions[b].last_delay
        /\ sessions[a].tokens_sent > sessions[b].tokens_sent
        /\ cur = a

\* C15 (cancellation): from the moment its caller has disconnected, a
\* session emits no further chunk, surfaces no error and, once it has
\* ended, holds no buffered token.
C15_Cancellation ==
    [][\A s \in Sessions :
          sessions[s].disconnected =>
              /\ sessions'[s].emitted = sessions[s].emitted
              /\ sessions'[s].error = ""
              /\ sessions'[s].pc \in { "cancelled", "done" } =>
                     sessions'[s].token_buffer = << >>]_vars

\* ---------------------------------------------------------------------
\* The loop: termination, chunks, pacing granularity, delays.
\* ---------------------------------------------------------------------

S_A_e_acute == << 65, 233 >>
S_euro == << 8364 >>

TermStores ==
    { << [model_name |-> S_o1, prompt |-> S_ab, response |-> t] >> :
        t \in { << >>, S_A_e_acute, S_euro } }

TermRequests ==
    [ prompt : { S_a },
      model : { S_o1, S_o1_slow },
      debug_mode : { << >>, << TRUE >> },
      smoothing_factor : { << >>, << R(0, 1) >> } ]

InitTerm ==
    InitWith(TermStores, TermRequests, { MODEL_OUTPUT_SPEEDS })

\* Every sleep returns and the generator is always resumed: a step that
\* can be taken is taken.
FairSpec ==
    InitTerm /\ [][Next]_vars /\ WF_vars(Next)

C23_ChunkFormation ==
    [][(pc = "loop" /\ i < Len(tokens) /\ emitted' # emitted) =>
          LET buf == Append(token_buffer, tokens[i + 1])
          IN  /\ Decode(buf, TRUE).ok
              /\ emitted' =
                     Append(emitted,
                            FormatSseMessage(Decode(buf, TRUE).text))
              /\ token_buffer = << >> \/ ~ Decode(token_buffer, TRUE).ok
              /\ token_buffer' = << >>]_vars

\* A chunk made of three tokens, none of which decodes before the third.
C23_Witness ==
    /\ emitted # << >>
    /\ token_buffer = << >>
    /\ tokens_sent = 3
    /\ Len(emitted) = 1
    /\ ContentOf(emitted[1]) = << 8364 >>

\* C26 (debug transparency): a replay with debug_mode true ends as the
\* replay with debug_mode false does, by returning and without raising.
C26_DebugTransparency ==
    (debug_mode /\ pc \in { "done", "error" }) =>
        /\ pc = "done"
        /\ error = ""

\* C27 (complete emission): when the loop has consumed every token the
\* buffer is empty and tokens_sent equals total_tokens, and the step after
\* the loop emits nothing.
C27_CompleteEmission ==
    [][(pc = "loop" /\ i >= Len(tokens)) =>
          /\ token_buffer = << >>
          /\ tokens_sent = total_tokens
          /\ emitted' = emitted]_vars

\* The loop has been left after a text whose last character takes two
\* tokens.
C27_Witness ==
    /\ pc = "done"
    /\ total_tokens >= 2
    /\ Len(tokens[total_tokens]) = 1
    /\ tokens[total_tokens][1] >= 128
    /\ tokens_sent = total_tokens

\* C28 (non-negative delay): last_delay and every sleep are at least zero,
\* whatever the smoothing factor, inside or outside [0, 1].
C28_NonNegativeDelay ==
    /\ RLe(RZero, last_delay)
    /\ RLe(RZero, pace.slept)

\* A step ahead of schedule with smoothing factor 1.5, for which the blend
\* of line 166 is negative: the sleep is zero.
C28_Witness ==
    /\ Paced
    /\ pace.kind = "ahead"
    /\ pace.sf = R(3, 2)
    /\ pace.slept = RZero
    /\ RLt(RAdd(RMul(pace.sf, pace.prev_delay),
                RMul(RSub(RInt(1), pace.sf),
                     RDiv(RSub(RInt(pace.sent), pace.expected), pace.speed))),
           RZero)

\* C29 (pacing granularity): every iteration takes one pacing decision
\* before its token is appended, with or without tokens in the buffer; the
\* decision compares tokens_sent alone, not the buffered tokens, with the
\* expected progress.
C29_PacingGranularity ==
    [][(pc = "loop" /\ i' = i + 1) =>
          /\ pace'.sent = tokens_sent
          /\ pace'.buffered = Len(token_buffer)
          /\ pace'.expected = RMul(RSub(RSub(now', pace'.slept), start_time),
                                   output_speed)
          /\ (pace'.kind = "ahead") =
                 RLt(pace'.expected, RInt(tokens_sent))]_vars

\* A sleep taken while the buffer holds a token that did not decode.
C29_Witness ==
    /\ Paced
    /\ pace.kind = "ahead"
    /\ pace.buffered > 0
    /\ RLt(RZero, pace.slept)

\* ---------------------------------------------------------------------
\* Model names: keys of the mapping, names that contain a key, others.
\* ---------------------------------------------------------------------

S_o == << 111 >>
S_gpt_4o_mini == S_gpt_4o \o << 45, 109, 105, 110, 105 >>
S_foo == << 102, 111, 111 >>

\* Rows whose model name "o" is contained in every requested model.
ModelStores ==
    { << [model_name |-> S_o, prompt |-> S_ab, response |-> t] >> :
        t \in { S_A, S_e_acute } }

ModelRequests ==
    [ prompt : { S_a },
      model : { S_o1, S_gpt_4o_mini, S_o3_mini, S_gpt_4o, S_foo, S_o1_slow,
                S_slow },
      debug_mode : { << >>, << TRUE >> },
      smoothing_factor : { << >>, << R(0, 1) >> } ]

InitModels ==
    InitWith(ModelStores, ModelRequests, { MODEL_OUTPUT_SPEEDS })

SpecModels ==
    InitModels /\ [][Next]_vars

\* The keys of the mapping.
Keys(cfg) ==
    { pair[1] : pair \in cfg }

\* C24 (rate resolution without the slow marker): for a model name that
\* does not contain "slow", the generator's rate is the rate the mapping
\* gives to exactly that name, and the default rate when the name is not a
\* key, also when the name contains a key.
C24_RateResolution ==
    (Started /\ ~ IsSubstring(S_slow, model_name)) =>
        /\ \A pair \in speeds :
               pair[1] = model_name => output_speed = pair[2]
        /\ model_name \notin Keys(speeds) =>
               output_speed = RInt(DEFAULT_OUTPUT_SPEED)

\* A replay for "gpt-4o-mini", which contains the key "gpt-4o" (rate 86)
\* and is not a key, at the default rate.
C24_Witness ==
    /\ Started
    /\ model_name = S_gpt_4o_mini
    /\ \E pair \in speeds :
           /\ IsSubstring(pair[1], model_name)
           /\ pair[2] # RInt(DEFAULT_OUTPUT_SPEED)
    /\ output_speed = RInt(DEFAULT_OUTPUT_SPEED)

\* ---------------------------------------------------------------------
\* Stores with many rows: the search returns at most SEARCH_LIMIT rows,
\* the most recent ones, before the locator filters them by model name.
\* ---------------------------------------------------------------------

\* Largest number of rows added after the row the request is about.
MaxNewerRows == 100

\* A row for model "o1", then n newer rows with the same prompt for model
\* "o3-mini".
LimitStores ==
    { << [model_name |-> S_o1, prompt |-> S_ab, response |-> S_A] >>
          \o [k \in 1..n |->
                 [model_name |-> S_o3_mini, prompt |-> S_ab,
                  response |-> S_e_acute]] :
        n \in 0..MaxNewerRows }

LimitRequests ==
    [ prompt : { S_a },
      model : { S_o1 },
      debug_mode : { << >>, << TRUE >> },
      smoothing_factor : { << >>, << R(0, 1) >> } ]

InitLimit ==
    InitWith(LimitStores, LimitRequests, { MODEL_OUTPUT_SPEEDS })

SpecLimit ==
    InitLimit /\ [][Next]_vars

\* C25 (locator completeness): when some row of the store has a prompt
\* that contains the requested prompt and a model name contained in the
\* requested model, the request is answered 200, whatever other rows the
\* store holds.
C25_LocatorCompleteness ==
    (/\ pc # "request"
     /\ \E k \in 1..Len(db) :
            /\ IsSubstring(request.prompt, db[k].prompt)
            /\ IsSubstring(db[k].model_name, request.model)) =>
        status = 200

\* The same for stores in which fewer than SEARCH_LIMIT rows pass the
\* search.
LocatorCompleteBelowLimit ==
    (/\ pc # "request"
     /\ Len(db) <= SEARCH_LIMIT
     /\ \E k \in 1..Len(db) :
            /\ IsSubstring(request.prompt, db[k].prompt)
            /\ IsSubstring(db[k].model_name, request.model)) =>
        status = 200

\* ---------------------------------------------------------------------
\* LLMClient.make_request (llm_client.py): one call, its upstream response
\* and the record it saves.
\* ---------------------------------------------------------------------

\* Largest number of events of an upstream stream.
MaxEvents == 2

\* ConversationDB.save_conversation (database.py lines 61-83): one INSERT.
SaveConversation(rows, model, prompt, response) ==
    Append(rows, [model_name |-> model, prompt |-> prompt,
                  response |-> response])

\* is_claude_model (lines 29-31) with claude_models of line 20; the third
\* entry, "claude", subsumes the other two.
S_claude == << 99, 108, 97, 117, 100, 101 >>

IsClaudeModel(name) ==
    \/ IsSubstring(S_claude_3_5_sonnet, name)
    \/ IsSubstring(S_claude_3_7_sonnet_20250219, name)
    \/ IsSubstring(S_claude, name)

\* What the upstream sends in a stream: a content delta, a data line that
\* is not JSON, an error event.
UpstreamEvents ==
    [ kind : { "delta" }, text : { S_A, S_e_acute } ]
        \cup { [kind |-> "malformed", text |-> << >>],
               [kind |-> "error", text |-> << >>] }

\* An upstream response: a status and, when the status is 200, the events
\* of the stream or the text blocks of the body.
Upstreams ==
    { [status |-> 500, events |-> << >>] } \cup
    { [status |-> 200, events |-> ev] :
        ev \in UNION { [ 1..n -> UpstreamEvents ] : n \in 0..MaxEvents } }

\* A body that is not a stream holds text only.
IsBody(up) ==
    \A k \in 1..Len(up.events) : up.events[k].kind = "delta"

Calls ==
    { call \in [ pc : { "call" },
                 model_name : { S_o1, S_claude_3_5_sonnet },
                 prompt : { S_a },
                 stream : BOOLEAN,
                 upstream : Upstreams,
                 k : { 0 },
                 accumulated_text : { << >> },
                 result : { 0 } ] :
        call.stream \/ IsBody(call.upstream) }

InitLLM ==
    /\ InitServer({ << >> }, StoreRequests, { MODEL_OUTPUT_SPEEDS })
    /\ sessions = << >>
    /\ llm \in Calls
    /\ sse = NoStream
    /\ batch = NoBatch

\* What every step of the call leaves alone.
CallFrame ==
    UNCHANGED << searches, speeds, request, pc, status, error, locals,
                 emitted, now, ticks, pace, conc, sse, batch >>

\* The text of a body that is not a stream.
BodyText(up) ==
    Concat([k \in 1..Len(up.events) |-> up.events[k].text])

\* make_request up to the response of requests.post: lines 47-83 and
\* 146-160 (OpenAI-compatible), lines 225-252 and 334-343 (Claude).
AfterPost(call) ==
    IF IsClaudeModel(call.model_name)
    THEN IF call.upstream.status # 200
         THEN [call EXCEPT !.pc = "returned", !.result = -1]
         ELSE IF call.stream
         THEN [call EXCEPT !.pc = "reading"]
         ELSE [call EXCEPT !.pc = "saving",
                           !.accumulated_text = BodyText(call.upstream)]
    ELSE IF call.stream
         THEN [call EXCEPT !.pc = "reading"]
         ELSE IF call.upstream.status # 200
         THEN [call EXCEPT !.pc = "raised"]
         ELSE [call EXCEPT !.pc = "saving",
                           !.accumulated_text = BodyText(call.upstream)]

LlmPost ==
    /\ llm.pc = "call"
    /\ llm' = AfterPost(llm)
    /\ UNCHANGED db
    /\ CallFrame

\* One turn of the loop over the stream, lines 91-111 (OpenAI-compatible:
\* a line that is not JSON ends the loop) and lines 262-294 (Claude: an
\* error event ends the loop, a line that is not JSON is skipped); the
\* loop ends when the stream does.
AfterRead(call) ==
    IF call.k = Len(call.upstream.events)
    THEN [call EXCEPT !.pc = "saving"]
    ELSE LET ev == call.upstream.events[call.k + 1]
             breaks == IF IsClaudeModel(call.model_name)
                       THEN ev.kind = "error"
                       ELSE ev.kind = "malformed"
         IN  IF breaks
             THEN [call EXCEPT !.pc = "saving"]
             ELSE [call EXCEPT !.k = call.k + 1,
                               !.accumulated_text =
                                   call.accumulated_text \o ev.text]

LlmRead ==
    /\ llm.pc = "reading"
    /\ llm' = AfterRead(llm)
    /\ UNCHANGED db
    /\ CallFrame

\* save_conversation under the lock and the return: lines 125-145,
\* 203-223, 314-333, 367-386.
LlmSave ==
    /\ llm.pc = "saving"
    /\ db' = SaveConversation(db, llm.model_name, llm.prompt,
                              llm.accumulated_text)
    /\ llm' = [llm EXCEPT !.pc = "returned"]
    /\ CallFrame

NextLLM ==
    \/ LlmPost
    \/ LlmRead
    \/ LlmSave

SpecLLM ==
    InitLLM /\ [][NextLLM]_vars

\* The content deltas the call has read from its upstream.
ReceivedText ==
    IF llm.stream
    THEN Concat([k \in 1..llm.k |-> llm.upstream.events[k].text])
    ELSE BodyText(llm.upstream)

\* C21 (every exchange is recorded): a call that has received its upstream
\* response and has returned without raising has saved exactly one record,
\* holding the model name, the prompt and the text received.
C21_EveryExchangeRecorded ==
    llm.pc = "returned" =>
        db = << [model_name |-> llm.model_name, prompt |-> llm.prompt,
                 response |-> ReceivedText] >>

\* The same for the calls whose upstream answered with status 200.
RecordedWhenOk ==
    (llm.pc = "returned" /\ llm.upstream.status = 200) =>
        db = << [model_name |-> llm.model_name, prompt |-> llm.prompt,
                 response |-> ReceivedText] >>

\* ---------------------------------------------------------------------
\* The SSE stream on the wire and ClientTest._process_stream (client.py).
\* ---------------------------------------------------------------------

\* Largest number of characters of a response sent over the wire.
MaxWireChars == 2

\* The letter A, line feed, quotation mark, backslash, e acute and a
\* character outside the basic plane.
WireChars == { 65, 10, 34, 92, 233, 128512 }

WireTexts ==
    UNION { [ 1..n -> WireChars ] : n \in 0..MaxWireChars }

\* A hexadecimal digit, lower case, as json.dumps writes it.
HexDigit(n) ==
    IF n < 10 THEN 48 + n ELSE 87 + n

\* The escape \uXXXX of a 16-bit code unit.
UnicodeEscape(u) ==
    << 92, 117, HexDigit(u \div 4096), HexDigit((u \div 256) % 16),
       HexDigit((u \div 16) % 16), HexDigit(u % 16) >>

\* Variant of JsonEscapeChar: only the quotation mark and the backslash
\* are escaped.
JsonEscapeChar_Raw(c) ==
    IF c = 34 \/ c = 92 THEN << 92, c >> ELSE << c >>

\* json.dumps with ensure_ascii: how one character of a string is written.
JsonEscapeChar(c) ==
    IF c = 34 THEN << 92, 34 >>
    ELSE IF c = 92 THEN << 92, 92 >>
    ELSE IF c = 10 THEN << 92, 110 >>
    ELSE IF c = 13 THEN << 92, 114 >>
    ELSE IF c = 9 THEN << 92, 116 >>
    ELSE IF c = 8 THEN << 92, 98 >>
    ELSE IF c = 12 THEN << 92, 102 >>
    ELSE IF c >= 32 /\ c <= 126 THEN << c >>
    ELSE IF c < 65536 THEN UnicodeEscape(c)
    ELSE UnicodeEscape(55296 + ((c - 65536) \div 1024))
             \o UnicodeEscape(56320 + ((c - 65536) % 1024))

\* json.dumps of a string.
JsonDumpsString(text) ==
    << 34 >> \o Concat([k \in 1..Len(text) |-> JsonEscapeChar(text[k])])
        \o << 34 >>

\* {"choices": [{"delta": {"content":
JSON_OPEN ==
    << 123, 34, 99, 104, 111, 105, 99, 101, 115, 34, 58, 32, 91, 123, 34,
    100, 101, 108, 116, 97, 34, 58, 32, 123, 34, 99, 111, 110, 116, 101,
    110, 116, 34, 58, 32 >>

\* }}]}
JSON_CLOSE ==
    << 125, 125, 93, 125 >>

\* data:
DATA_PREFIX ==
    << 100, 97, 116, 97, 58 >>

\* json.dumps(data) for the data of a message (server.py lines 247-256).
JsonDumps(json) ==
    JSON_OPEN \o JsonDumpsString(json.choices[1].delta.content) \o JSON_CLOSE

\* The bytes of a message: f"data: {json.dumps(data)}\n\n" (line 257),
\* sent as UTF-8.
WireBytes(msg) ==
    Utf8Encode(DATA_PREFIX \o << 32 >> \o JsonDumps(msg.json) \o << 10, 10 >>)

\* The value of a hexadecimal digit, -1 for another character.
HexVal(d) ==
    IF d >= 48 /\ d <= 57 THEN d - 48
    ELSE IF d >= 97 /\ d <= 102 THEN d - 87
    ELSE IF d >= 65 /\ d <= 70 THEN d - 55
    ELSE -1

\* The code unit of the escape \uXXXX at the head of cs, -1 if there is
\* none.
EscapedUnit(cs) ==
    IF /\ Len(cs) >= 6
       /\ cs[1] = 92
       /\ cs[2] = 117
       /\ \A k \in 3..6 : HexVal(cs[k]) >= 0
    THEN HexVal(cs[3]) * 4096 + HexVal(cs[4]) * 256 + HexVal(cs[5]) * 16
             + HexVal(cs[6])
    ELSE -1

\* The character for a one-letter escape, -1 if the letter is none.
SimpleEscape(c) ==
    IF c = 34 \/ c = 92 \/ c = 47 THEN c
    ELSE IF c = 98 THEN 8
    ELSE IF c = 102 THEN 12
    ELSE IF c = 110 THEN 10
    ELSE IF c = 114 THEN 13
    ELSE IF c = 116 THEN 9
    ELSE -1

\* json.loads on the inside of a string, from after the opening quotation
\* mark: the text up to the closing quotation mark and what follows it.
RECURSIVE ScanString(_)
ScanString(cs) ==
    LET fail == [ok |-> FALSE, text |-> << >>, rest |-> << >>]
        after(c, n) ==
            LET more == ScanString(SubSeq(cs, n + 1, Len(cs)))
            IN  [more EXCEPT !.text = << c >> \o more.text]
    IN  IF cs = << >> THEN fail
        ELSE IF cs[1] = 34
        THEN [ok |-> TRUE, text |-> << >>, rest |-> Tail(cs)]
        ELSE IF cs[1] < 32 THEN fail
        ELSE IF cs[1] # 92 THEN after(cs[1], 1)
        ELSE IF Len(cs) < 2 THEN fail
        ELSE IF cs[2] # 117
        THEN IF SimpleEscape(cs[2]) < 0 THEN fail
             ELSE after(SimpleEscape(cs[2]), 2)
        ELSE LET u == EscapedUnit(cs)
                 low == EscapedUnit(SubSeq(cs, 7, Len(cs)))
             IN  IF u < 0 THEN fail
                 ELSE IF /\ u >= 55296 /\ u <= 56319
                         /\ low >= 56320 /\ low <= 57343
                 THEN after(65536 + (u - 55296) * 1024 + (low - 56320), 12)
                 ELSE after(u, 6)

\* Whether pre is the beginning of cs.
StartsWith(cs, pre) ==
    Len(cs) >= Len(pre) /\ SubSeq(cs, 1, Len(pre)) = pre

\* cs without its leading spaces.
RECURSIVE SkipSpaces(_)
SkipSpaces(cs) ==
    IF cs # << >> /\ cs[1] = 32 THEN SkipSpaces(Tail(cs)) ELSE cs

\* json.loads followed by lines 86-88 of client.py, for a document of the
\* shape the server writes: ok with the content, or not ok when the text
\* is no such document (JSONDecodeError, or a document with no content).
LoadContent(cs) ==
    LET doc == SkipSpaces(cs)
        body == SubSeq(doc, Len(JSON_OPEN) + 1, Len(doc))
        str == IF body # << >> /\ body[1] = 34
               THEN ScanString(Tail(body))
               ELSE [ok |-> FALSE, text |-> << >>, rest |-> << >>]
    IN  IF StartsWith(doc, JSON_OPEN) /\ str.ok /\ str.rest = JSON_CLOSE
        THEN [ok |-> TRUE, content |-> str.text]
        ELSE [ok |-> FALSE, content |-> << >>]

\* Lines 76-91 of client.py for one line of the stream.
ProcessLine(accumulated_text, line) ==
    LET decoded_line == Utf8Decode(line, TRUE).text
        loaded == LoadContent(SubSeq(decoded_line, 6, Len(decoded_line)))
    IN  IF line = << >> THEN accumulated_text
        ELSE IF ~ StartsWith(decoded_line, DATA_PREFIX) THEN accumulated_text
        ELSE IF loaded.ok THEN accumulated_text \o loaded.content
        ELSE accumulated_text

\* The positions of the line ends (LF, CR) in bs.
LineEnds(bs) ==
    { k \in 1..Len(bs) : bs[k] = 10 \/ bs[k] = 13 }

\* The first line end of bs.
FirstLineEnd(bs) ==
    CHOOSE k \in LineEnds(bs) : \A j \in LineEnds(bs) : k <= j

\* A stream about to be sent: the chunks are the response text cut into
\* non-empty pieces, as the generator cuts it at the ends of its tokens.
Streams ==
    UNION { { [pc |-> "open", text |-> t, chunks |-> cut, wire |-> << >>,
               accumulated_text |-> << >>] : cut \in Splits(t) } :
            t \in WireTexts }

InitSse ==
    /\ InitServer({ << >> }, StoreRequests, { MODEL_OUTPUT_SPEEDS })
    /\ sessions = << >>
    /\ llm = NoCall
    /\ sse \in Streams
    /\ batch = NoBatch

\* What every step of the stream leaves alone.
StreamFrame ==
    UNCHANGED << db, searches, speeds, request, pc, status, error, locals,
                 emitted, now, ticks, pace, conc, llm, batch >>

\* The server sends its next chunk as one message.
SseSend ==
    /\ sse.pc = "open"
    /\ sse.chunks # << >>
    /\ sse' = [sse EXCEPT
                   !.chunks = Tail(sse.chunks),
                   !.wire = sse.wire
                                \o WireBytes(FormatSseMessage(
                                                 Head(sse.chunks)))]
    /\ StreamFrame

\* The server's generator has returned: the stream ends.
SseClose ==
    /\ sse.pc = "open"
    /\ sse.chunks = << >>
    /\ sse' = [sse EXCEPT !.pc = "closed"]
    /\ StreamFrame

\* response.iter_lines gives the next line (ended by LF, CR or CR LF) and
\* the body of the loop runs on it.
SseReadLine ==
    /\ sse.pc \in { "open", "closed" }
    /\ LineEnds(sse.wire) # { }
    /\ LET k == FirstLineEnd(sse.wire)
           crlf == /\ sse.wire[k] = 13
                   /\ k < Len(sse.wire)
                   /\ sse.wire[k + 1] = 10
           next == IF crlf THEN k + 2 ELSE k + 1
       IN  sse' = [sse EXCEPT
                       !.wire = SubSeq(sse.wire, next, Len(sse.wire)),
                       !.accumulated_text =
                           ProcessLine(sse.accumulated_text,
                                       SubSeq(sse.wire, 1, k - 1))]
    /\ StreamFrame

\* The stream has ended and no whole line is left: the rest, if any, is
\* the last line, and _process_stream returns.
SseReturn ==
    /\ sse.pc = "closed"
    /\ LineEnds(sse.wire) = { }
    /\ sse' = [sse EXCEPT
                   !.pc = "returned",
                   !.wire = << >>,
                   !.accumulated_text =
                       ProcessLine(sse.accumulated_text, sse.wire)]
    /\ StreamFrame

NextSse ==
    \/ SseSend
    \/ SseClose
    \/ SseReadLine
    \/ SseReturn

SpecSse ==
    InitSse /\ [][NextSse]_vars

\* C30 (client round trip): when _process_stream has returned, the text
\* it has accumulated from the server's messages is the response text.
C30_ClientRoundTrip ==
    sse.pc = "returned" => sse.accumulated_text = sse.text

\* A response with a line feed and a character outside the basic plane,
\* sent in two messages and read back whole.
C30_Witness ==
    /\ sse.pc = "returned"
    /\ sse.text = << 10, 128512 >>
    /\ sse.accumulated_text = sse.text

\* C36 (loop accounting): at the head of every iteration of the replay
\* loop the tokens sent and the tokens in the buffer are together the
\* tokens consumed, tokens_sent + len(token_buffer) = i, and i is between
\* 0 and total_tokens.
C36_LoopAccounting ==
    pc = "loop" =>
        /\ tokens_sent + Len(token_buffer) = i
        /\ 0 <= i
        /\ i <= total_tokens

\* The head of an iteration with one token already sent and two tokens
\* held back in the buffer.
C36_Witness ==
    /\ pc = "loop"
    /\ tokens_sent = 1
    /\ Len(token_buffer) = 2
    /\ i = 3
    /\ i < total_tokens

\* ---------------------------------------------------------------------
\* batch_process_models, process_model_request and handle_errors
\* (make_a_request.py): the worker threads, their attempts and the store
\* writes of their clients.
\* ---------------------------------------------------------------------

\* Largest number of models of a batch.
MaxModels == 2

\* Largest value of the keyword argument retries.
MaxRetries == 2

\* kwargs.pop('retries', 3), line 15.
DEFAULT_RETRIES == 3

\* min(2 ** attempt, 5), line 26.
MAX_BACKOFF == 5

\* min(10, len(models)), line 78.
WORKER_CAP == 10

\* Variant of Backoff: the sleep is not capped.
Backoff_Uncapped(attempt) ==
    2 ^ attempt

\* time.sleep(min(2 ** attempt, 5)), line 26.
Backoff(attempt) ==
    IF 2 ^ attempt < MAX_BACKOFF THEN 2 ^ attempt ELSE MAX_BACKOFF

\* Variant of IsFinalAttempt: one attempt later.
IsFinalAttempt_OneLater(attempt, retries) ==
    attempt = retries

\* attempt == retries - 1, line 23.
IsFinalAttempt(attempt, retries) ==
    attempt = retries - 1

\* result if result is not None else True, line 20.
WrapperResult(result) ==
    IF result = "None" THEN "True" ELSE result

\* Variant of ExceptionKind: every failure is a RequestException.
ExceptionKind_AllRequest(fault) ==
    "RequestException"

\* The except clause that catches a failure: a refused connection, a
\* stream cut short (requests.post, iter_lines) and an error status
\* (raise_for_status) are RequestException (line 21); a body with no
\* "choices" (KeyError) and a failed INSERT (sqlite3.Error) are caught by
\* line 27.
ExceptionKind(fault) ==
    IF fault \in { "connect", "broken", "status" }
    THEN "RequestException"
    ELSE "Exception"

\* Variant of DbLockFree: a lock of the client's own, which no other
\* thread ever holds.
DbLockFree_PerClient(owner) ==
    TRUE

\* threading.Lock.acquire on the module's db_lock (llm_client.py lines 9
\* and 26): it is taken when no thread holds it.
DbLockFree(owner) ==
    owner = 0

\* What an upstream does with one attempt: the status and body it answers
\* with, whether the body reports token usage, and what fails (nothing;
\* the connection; the stream, cut short; the body, with no "choices";
\* the INSERT of the conversation; the INSERT of the token usage).
BatchUpstreams ==
    { up \in [ status : { 200 },
               events : { << [kind |-> "delta", text |-> S_A] >> },
               usage : BOOLEAN,
               fault : { "none", "broken", "body", "db", "usage" } ] :
        up.fault = "usage" => up.usage }
    \cup { [status |-> 500, events |-> << >>, usage |-> FALSE,
            fault |-> "none"],
           [status |-> 0, events |-> << >>, usage |-> FALSE,
            fault |-> "connect"] }

\* The failures that can happen to a call to this model.
Fits(up, model, stream) ==
    /\ up.fault = "broken" => stream
    /\ up.fault = "body" => (~ stream /\ ~ IsClaudeModel(model))

\* The loop over the stream, to its end.
RECURSIVE ReadAll(_)
ReadAll(call) ==
    IF call.pc = "reading" THEN ReadAll(AfterRead(call)) ELSE call

\* client.make_request up to its save or its end: "save" with the text to
\* save, "return" (the call returns with nothing saved) or the failure
\* raised.
Received(model, prompt, stream, up) ==
    LET posted == AfterPost([pc |-> "call", model_name |-> model,
                             prompt |-> prompt, stream |-> stream,
                             upstream |-> up, k |-> 0,
                             accumulated_text |-> << >>, result |-> 0])
        read == ReadAll(posted)
    IN  IF up.fault = "connect"
        THEN [kind |-> "raise", fault |-> "connect", text |-> << >>]
        ELSE IF posted.pc = "raised"
        THEN [kind |-> "raise", fault |-> "status", text |-> << >>]
        ELSE IF posted.pc = "returned"
        THEN [kind |-> "return", fault |-> "none", text |-> << >>]
        ELSE IF up.fault \in { "broken", "body" }
        THEN [kind |-> "raise", fault |-> up.fault, text |-> << >>]
        ELSE [kind |-> "save", fault |-> up.fault,
              text |-> read.accumulated_text]

\* A thread of the pool before its task starts.
NewThread ==
    [pc |-> "queued", attempt |-> 0, calls |-> 0, slept |-> << >>,
     outcomes |-> << >>, inside |-> FALSE, print_lock |-> FALSE,
     status |-> 0, text |-> << >>, usage |-> FALSE, fault |-> "none",
     conversation_id |-> 0, saves |-> 0, save_call |-> 0,
     result |-> "pending"]

\* Models of a batch; "gpt-4o" and "o3-mini" take the same path as "o1".
BATCH_MODELS ==
    << S_o1, S_claude_3_5_sonnet, S_gpt_4o, S_o3_mini >>

\* The lists of models of a batch: distinct names, one thread each, the
\* Claude model submitted first or second.
ModelLists ==
    { SubSeq(BATCH_MODELS, 1, n) : n \in 1..MaxModels } \cup
    { << BATCH_MODELS[2], BATCH_MODELS[1] >>
          \o SubSeq(BATCH_MODELS, 3, n) : n \in 2..MaxModels } \cup
    { << BATCH_MODELS[2] >> }

\* batch_process_models(models, prompt, max_workers, stream=, retries=)
\* for the given lists of models and values of retries.
BatchesOf(lists, retries) ==
    { b \in [ pc : { "running" },
              models : lists,
              prompt : { S_a },
              stream : BOOLEAN,
              retries : retries,
              max_workers : 0..(MaxModels - 1),
              threads : UNION { [ 1..n -> { NewThread } ] :
                                n \in 1..MaxModels },
              db_lock : { 0 },
              writer : { << >> },
              token_usage : { << >> },
              results : { { } } ] :
        /\ Len(b.threads) = Len(b.models)
        /\ b.max_workers < Len(b.models) }

\* max_workers, None (written 0) being min(10, len(models)): lines 77-78;
\* the values given are below len(models).
MaxWorkers(b) ==
    IF b.max_workers # 0 THEN b.max_workers
    ELSE IF Len(b.models) < WORKER_CAP THEN Len(b.models)
    ELSE WORKER_CAP

\* A batch of up to MaxModels models, each call making one attempt.
InitBatch ==
    /\ InitServer({ << >> }, { CHOOSE r \in StoreRequests : TRUE },
                  { MODEL_OUTPUT_SPEEDS })
    /\ sessions = << >>
    /\ llm = NoCall
    /\ sse = NoStream
    /\ batch \in BatchesOf(ModelLists, { 1 })

\* A batch of one model, with retries left out or given.
InitRetry ==
    /\ InitServer({ << >> }, { CHOOSE r \in StoreRequests : TRUE },
                  { MODEL_OUTPUT_SPEEDS })
    /\ sessions = << >>
    /\ llm = NoCall
    /\ sse = NoStream
    /\ batch \in BatchesOf({ ms \in ModelLists : Len(ms) = 1 },
                           { DEFAULT_RETRIES } \cup 0..MaxRetries)

\* What every step of the batch leaves alone.
BatchFrame ==
    UNCHANGED << searches, speeds, request, pc, status, error, locals,
                 emitted, now, ticks, pace, conc, llm, sse >>

\* The threads whose task has started and not ended.
Running ==
    { u \in DOMAIN batch.threads :
        batch.threads[u].pc \notin { "queued", "done", "collected" } }

\* The thread has left client.make_request and the with block of line 56:
\* the locals of the call are gone.
Out(th) ==
    [th EXCEPT !.inside = FALSE, !.print_lock = FALSE, !.text = << >>,
               !.usage = FALSE, !.fault = "none", !.conversation_id = 0]

\* A worker of the pool takes the next task submitted (lines 83-87) and
\* the wrapper starts: lines 15-19.
ThreadStart(t) ==
    /\ batch.threads[t].pc = "queued"
    /\ \A u \in 1..(t - 1) : batch.threads[u].pc # "queued"
    /\ Cardinality(Running) < MaxWorkers(batch)
    /\ batch' =
         IF batch.retries <= 0
         THEN [batch EXCEPT !.threads[t].pc = "done",
                            !.threads[t].result = "None"]
         ELSE [batch EXCEPT !.threads[t].pc = "enter",
                            !.threads[t].calls = 1]
    /\ UNCHANGED db
    /\ BatchFrame

\* process_model_request up to the call of client.make_request: the lock
\* made at line 41 is taken at line 56.
Enter(t) ==
    /\ batch.threads[t].pc = "enter"
    /\ ~ batch.threads[t].print_lock
    /\ batch' = [batch EXCEPT !.threads[t].pc = "post",
                              !.threads[t].print_lock = TRUE,
                              !.threads[t].inside = TRUE]
    /\ UNCHANGED db
    /\ BatchFrame

\* client.make_request up to its save: the upstream answers or fails.
Respond(t) ==
    /\ batch.threads[t].pc = "post"
    /\ \E up \in BatchUpstreams :
         /\ Fits(up, batch.models[t], batch.stream)
         /\ LET got == Received(batch.models[t], batch.prompt,
                                batch.stream, up)
                th == [batch.threads[t] EXCEPT
                           !.status = up.status,
                           !.text = got.text,
                           !.usage = up.usage,
                           !.fault = got.fault]
            IN  batch' =
                  [batch EXCEPT !.threads[t] =
                     IF got.kind = "save"
                     THEN [th EXCEPT !.pc = "lock"]
                     ELSE IF got.kind = "return"
                     THEN [Out(th) EXCEPT !.pc = "left"]
                     ELSE [Out(th) EXCEPT
                               !.pc = "raised",
                               !.outcomes =
                                   Append(th.outcomes,
                                          ExceptionKind(got.fault))]]
    /\ UNCHANGED db
    /\ BatchFrame

\* with self.db_lock: the lock is taken.
Acquire(t) ==
    /\ batch.threads[t].pc = "lock"
    /\ DbLockFree(batch.db_lock)
    /\ batch' = [batch EXCEPT !.threads[t].pc = "insert",
                              !.db_lock = t]
    /\ UNCHANGED db
    /\ BatchFrame

\* self.db.save_conversation: the row is inserted and its id returned, or
\* the INSERT fails and the lock is released on the way out.
InsertConversation(t) ==
    /\ batch.threads[t].pc = "insert"
    /\ IF batch.threads[t].fault = "db"
       THEN /\ batch' =
                 [batch EXCEPT
                     !.db_lock = 0,
                     !.threads[t] =
                         [Out(batch.threads[t]) EXCEPT
                              !.pc = "raised",
                              !.outcomes =
                                  Append(batch.threads[t].outcomes,
                                         ExceptionKind("db"))]]
            /\ UNCHANGED db
       ELSE /\ db' = SaveConversation(db, batch.models[t], batch.prompt,
                                      batch.threads[t].text)
            /\ batch' =
                 [batch EXCEPT
                     !.writer = Append(batch.writer, t),
                     !.threads[t].pc = "usage",
                     !.threads[t].conversation_id = Len(db) + 1,
                     !.threads[t].saves = batch.threads[t].saves + 1,
                     !.threads[t].save_call = batch.threads[t].calls]
    /\ BatchFrame

\* self.db.save_token_usage when the upstream has reported usage, the end
\* of the with block and the return of make_request.
InsertUsage(t) ==
    /\ batch.threads[t].pc = "usage"
    /\ batch' =
         IF batch.threads[t].fault = "usage"
         THEN [batch EXCEPT
                  !.db_lock = 0,
                  !.threads[t] =
                      [Out(batch.threads[t]) EXCEPT
                           !.pc = "raised",
                           !.outcomes =
                               Append(batch.threads[t].outcomes,
                                      ExceptionKind("usage"))]]
         ELSE [batch EXCEPT
                  !.db_lock = 0,
                  !.token_usage =
                      IF batch.threads[t].usage
                      THEN Append(batch.token_usage,
                                  [conversation_id |->
                                       batch.threads[t].conversation_id,
                                   thread |-> t])
                      ELSE batch.token_usage,
                  !.threads[t] =
                      [Out(batch.threads[t]) EXCEPT !.pc = "left"]]
    /\ UNCHANGED db
    /\ BatchFrame

\* Lines 66-72 and line 20: process_model_request returns True whatever
\* make_request has returned, and the wrapper returns it.
Leave(t) ==
    /\ batch.threads[t].pc = "left"
    /\ batch' = [batch EXCEPT
                    !.threads[t].pc = "done",
                    !.threads[t].outcomes =
                        Append(batch.threads[t].outcomes, "returned"),
                    !.threads[t].result = WrapperResult("True")]
    /\ UNCHANGED db
    /\ BatchFrame

\* Lines 21-26: a RequestException ends the final attempt with False and
\* any other attempt with a sleep; the loop of line 17 then goes on, or
\* is over, and the wrapper returns None.
Retry(t) ==
    /\ batch.threads[t].pc = "raised"
    /\ batch.threads[t].outcomes[batch.threads[t].calls]
           = "RequestException"
    /\ LET th == batch.threads[t]
           slept == [th EXCEPT !.slept = Append(th.slept,
                                                Backoff(th.attempt))]
       IN  batch' =
             [batch EXCEPT !.threads[t] =
                IF IsFinalAttempt(th.attempt, batch.retries)
                THEN [th EXCEPT !.pc = "done", !.result = "False"]
                ELSE IF th.attempt + 1 < batch.retries
                THEN [slept EXCEPT !.pc = "enter",
                                   !.attempt = th.attempt + 1,
                                   !.calls = th.calls + 1]
                ELSE [slept EXCEPT !.pc = "done", !.result = "None"]]
    /\ UNCHANGED db
    /\ BatchFrame

\* Lines 27-29: any other exception ends the call with False.
Fail(t) ==
    /\ batch.threads[t].pc = "raised"
    /\ batch.threads[t].outcomes[batch.threads[t].calls] = "Exception"
    /\ batch' = [batch EXCEPT !.threads[t].pc = "done",
                              !.threads[t].result = "False"]
    /\ UNCHANGED db
    /\ BatchFrame

\* Lines 89-92: results[model] = future.result()
Collect(t) ==
    /\ batch.threads[t].pc = "done"
    /\ batch' = [batch EXCEPT
                    !.threads[t].pc = "collected",
                    !.results = DictSet(batch.results, batch.models[t],
                                        batch.threads[t].result)]
    /\ UNCHANGED db
    /\ BatchFrame

\* Lines 100-117: every future has completed and the results are returned.
BatchReturn ==
    /\ batch.pc = "running"
    /\ \A t \in DOMAIN batch.threads : batch.threads[t].pc = "collected"
    /\ batch' = [batch EXCEPT !.pc = "returned"]
    /\ UNCHANGED db
    /\ BatchFrame

NextBatch ==
    \/ \E t \in DOMAIN batch.threads : ThreadStart(t)
    \/ \E t \in DOMAIN batch.threads : Enter(t)
    \/ \E t \in DOMAIN batch.threads : Respond(t)
    \/ \E t \in DOMAIN batch.threads : Acquire(t)
    \/ \E t \in DOMAIN batch.threads : InsertConversation(t)
    \/ \E t \in DOMAIN batch.threads : InsertUsage(t)
    \/ \E t \in DOMAIN batch.threads : Leave(t)
    \/ \E t \in DOMAIN batch.threads : Retry(t)
    \/ \E t \in DOMAIN batch.threads : Fail(t)
    \/ \E t \in DOMAIN batch.threads : Collect(t)
    \/ BatchReturn

SpecBatch ==
    InitBatch /\ [][NextBatch]_vars

SpecRetry ==
    InitRetry /\ [][NextBatch]_vars

\* The threads of the batch.
Threads ==
    DOMAIN batch.threads

\* What handle_errors promises for one call, from its attempts so far:
\* outcomes holds the end of each attempt, slept the sleeps between them.
RetryPolicy(th, retries) ==
    /\ th.calls <= retries
    /\ Len(th.slept) = (IF th.calls = 0 THEN 0 ELSE th.calls - 1)
    /\ \A k \in 1..Len(th.slept) :
           th.slept[k] = (IF 2 ^ (k - 1) < 5 THEN 2 ^ (k - 1) ELSE 5)
    /\ \A k \in 1..Len(th.outcomes) :
           k < th.calls => th.outcomes[k] = "RequestException"
    /\ th.pc \in { "done", "collected" } =>
           /\ Len(th.outcomes) = th.calls
           /\ th.outcomes[th.calls] = "returned" => th.result = "True"
           /\ th.outcomes[th.calls] = "RequestException" =>
                  (th.calls = retries /\ th.result = "False")
           /\ th.outcomes[th.calls] = "Exception" => th.result = "False"

C34_SuccessReporting ==
    \A t \in Threads :
        batch.threads[t].pc = "collected" =>
            /\ DictAt(batch.results, batch.models[t]) = "True" =>
                   (batch.threads[t].status = 200
                        /\ batch.threads[t].saves = 1)
            /\ batch.threads[t].status >= 400 =>
                   DictAt(batch.results, batch.models[t]) = "False"

\* The same for the requests that are not streamed to an OpenAI-compatible
\* model, whose status raise_for_status checks.
SuccessReportedWhenStatusChecked ==
    \A t \in Threads :
        (/\ batch.threads[t].pc = "collected"
         /\ ~ batch.stream
         /\ ~ IsClaudeModel(batch.models[t])) =>
            /\ DictAt(batch.results, batch.models[t]) = "True" =>
                   (batch.threads[t].status = 200
                        /\ batch.threads[t].saves = 1)
            /\ batch.threads[t].status >= 400 =>
                   DictAt(batch.results, batch.models[t]) = "False"

\* C35 (no duplicate records under retry): a call of process_model_request
\* saves at most one conversation, and the attempt that saved it is the
\* latest attempt of the call.
C35_NoDuplicateRecords ==
    \A t \in Threads :
        /\ batch.threads[t].saves <= 1
        /\ batch.threads[t].saves = 1 =>
               batch.threads[t].save_call = batch.threads[t].calls

\* Two attempts have failed with a RequestException and the third has
\* saved the one record of the call.
C35_Witness ==
    /\ batch.threads[1].pc = "done"
    /\ batch.threads[1].outcomes
           = << "RequestException", "RequestException", "returned" >>
    /\ batch.threads[1].saves = 1
    /\ Len(db) = 1

\* The threads inside a with self.db_lock block.
InWriteSection ==
    { t \in Threads : batch.threads[t].pc \in { "insert", "usage" } }

\* C32 (serialised store writes): at most one thread at a time is inside a
\* store write section and it holds db_lock; a token-usage row is inserted
\* in the section that inserted its conversation, which is then the latest
\* row of the table; every token-usage row refers to the conversation its
\* own thread inserted.
C32_SerialisedWrites ==
    /\ [](/\ Cardinality(InWriteSection) <= 1
          /\ \A t \in InWriteSection : batch.db_lock = t
          /\ Len(batch.writer) = Len(db)
          /\ \A k \in 1..Len(batch.token_usage) :
                 /\ batch.token_usage[k].conversation_id \in 1..Len(db)
                 /\ batch.writer[batch.token_usage[k].conversation_id]
                        = batch.token_usage[k].thread)
    /\ [][batch.token_usage' # batch.token_usage =>
              \E t \in InWriteSection :
                  /\ batch.threads[t].pc = "usage"
                  /\ batch.writer[Len(db)] = t
                  /\ batch.token_usage'
                         = Append(batch.token_usage,
                                  [conversation_id |-> Len(db),
                                   thread |-> t])]_vars

\* A thread waits for db_lock while another, which has inserted its
\* conversation, is about to insert the token usage.
C32_Witness ==
    \E t, u \in Threads :
        /\ t # u
        /\ batch.threads[t].pc = "usage"
        /\ batch.threads[t].usage
        /\ batch.db_lock = t
        /\ batch.threads[u].pc = "lock"
        /\ batch.writer = << t >>

\* C33 (print lock): no two worker threads are inside client.make_request
\* at the same time.
C33_PrintLock ==
    Cardinality({ t \in Threads : batch.threads[t].inside }) <= 1

=============================================================================
